---- MODULE Spec2Model ----
(***************************************************************************)
(* Model of the yarn-slinger compiler core: the pass pipeline of `compile` *)
(* (crates/compiler/src/compiler.rs) and the code-generating parse-tree    *)
(* listener `CompilerListener`                                             *)
(* (crates/compiler/src/listeners/compiler_listener.rs), and of the core   *)
(* crate's value conversions `Convertible`                                 *)
(* (crates/core/src/value/convertible.rs) and type queries `Type`          *)
(* (crates/core/src/types/type.rs).                                        *)
(*                                                                         *)
(* Rust `String`s whose content the code inspects or builds (node names,   *)
(* header values, tags, labels, line ids) are sequences of one-character   *)
(* strings, so that formatting and splitting are computed, not assumed.    *)
(***************************************************************************)
EXTENDS FiniteSets, Integers, Sequences, TLC

(***************************************************************************)
(* Bounds of the model.                                                    *)
(***************************************************************************)
\* nodes of the file one listener walks
MaxNodes == 2
\* headers of the file, over all its nodes
MaxHeaders == 2
\* top-level statements of the file, over all its bodies
MaxStatements == 1
\* largest line number a body's closing token reports
MaxLine == 2
\* register_label calls in the label-naming specification
MaxLabels == 11
\* files of a compilation job
MaxFiles == 2

(***************************************************************************)
(* Option<T>                                                               *)
(***************************************************************************)
None == [tag |-> "None"]
Some(v) == [tag |-> "Some", value |-> v]
IsSome(o) == o.tag = "Some"
\* Option::unwrap_or_default for Option<&str>
UnwrapOrDefault(o) == IF IsSome(o) THEN o.value ELSE <<>>

(***************************************************************************)
(* Text                                                                    *)
(***************************************************************************)
EmptyString == <<>>
StartName == <<"S", "t", "a", "r", "t">>
OtherName == <<"O", "t", "h", "e", "r">>
RawTextTag == <<"r", "a", "w", "T", "e", "x", "t">>
\* the tags header value "a  b" (two spaces)
TagsPlain == <<"a", " ", " ", "b">>
PositionValue == <<"1", ",", "2">>

DigitChars == <<"0", "1", "2", "3", "4", "5", "6", "7", "8", "9">>

\* Display of an unsigned integer, as format!("{}", n) prints it.
RECURSIVE FormatUsize(_)
FormatUsize(n) ==
    IF n < 10 THEN <<DigitChars[n + 1]>>
    ELSE FormatUsize(n \div 10) \o <<DigitChars[(n % 10) + 1]>>

\* str::split(' '): the pieces between single spaces, empty pieces kept.
RECURSIVE SplitOnSpace(_)
SplitOnSpace(s) ==
    IF \A i \in 1..Len(s) : s[i] # " " THEN <<s>>
    ELSE LET k == CHOOSE i \in 1..Len(s) :
                      s[i] = " " /\ \A j \in 1..(i - 1) : s[j] # " "
         IN <<SubSeq(s, 1, k - 1)>> \o SplitOnSpace(SubSeq(s, k + 1, Len(s)))

Contains(seq, x) == \E i \in 1..Len(seq) : seq[i] = x

\* usize::saturating_sub
SaturatingSub(a, b) == IF a >= b THEN a - b ELSE 0

(***************************************************************************)
(* Program data                                                            *)
(***************************************************************************)
\* Node::default()
DefaultNode ==
    [name |-> EmptyString,
     instructions |-> <<>>,
     labels |-> <<>>,
     tags |-> <<>>,
     source_text_string_id |-> EmptyString,
     headers |-> <<>>]

\* DebugInfo::default()
DefaultDebugInfo ==
    [file_name |-> "", node_name |-> EmptyString, line_positions |-> <<>>]

\* Program::default()
DefaultProgram == [nodes |-> <<>>]

DefaultPosition == [line |-> 0, character |-> 0]

\* HashMap::insert
MapInsert(m, k, v) ==
    [x \in (DOMAIN m) \cup {k} |-> IF x = k THEN v ELSE m[x]]

MissingTitleMessage == "Missing title header for node"

VARIABLES
    \* CompilerListener fields
    debug_infos, program, tracking_nodes, diagnostics, current_node,
    current_debug_info, is_current_node_raw_text, file_name, label_count,
    \* position of the parse-tree walk that drives the listener: the place
    \* in the current node, the nodes, headers and statements walked so far
    \* and the line of the last body closing token (-1 before the first)
    pc, nodes_walked, headers_walked, statements_walked, line_walked,
    \* the strings returned by register_label, in call order
    issued_labels,
    \* compile: the job, the index of the next pass, the accumulated result
    job, step, result,
    \* Convertible: the value a chain of conversions started from, the value
    \* it has reached, and the conversions applied
    original, held, path,
    \* Type: the type and method name asked about, and the answer
    type_subject, method_subject, type_answer,
    \* strings-file updating: the unread update events, the Localizations
    \* resource, the system's Local map, the CurrentStringsFile resource, the
    \* strings files on disk, the asset server's load states, the loaded
    \* strings-file assets, the place in the frame, and what the last run of
    \* the updating system did
    events, localizations, languages_to_update, current_strings_file,
    files_on_disk, load_states, strings_files, phase, last_run,
    \* the number of the frame
    frame,
    \* what the run condition in_development gives
    in_development,
    \* the events Assets<StringsFile> has sent in this frame
    asset_events,
    \* the YarnCompilation resource, whether Localizations has been added
    \* or changed since the run condition resource_exists_and_changed last
    \* looked, and the CreateMissingStringsFilesEvents not yet dropped
    yarn_compilation, localizations_changed, creation_events

listener_vars ==
    <<debug_infos, program, tracking_nodes, diagnostics, current_node,
      current_debug_info, is_current_node_raw_text, file_name, label_count,
      pc, nodes_walked, headers_walked, statements_walked, line_walked,
      issued_labels>>
compile_vars == <<job, step, result>>
value_vars == <<original, held, path>>
type_vars == <<type_subject, method_subject, type_answer>>
core_vars == <<value_vars, type_vars>>
plugin_vars ==
    <<events, localizations, languages_to_update, current_strings_file,
      files_on_disk, load_states, strings_files, phase, last_run, frame,
      in_development, asset_events, yarn_compilation, localizations_changed,
      creation_events>>
vars == <<listener_vars, compile_vars, core_vars, plugin_vars>>

(***************************************************************************)
(* Inputs of the walk                                                      *)
(***************************************************************************)
FileNames == {"a.yarn"}
NodeNames == {StartName, OtherName}
TrackingSets == SUBSET NodeNames

\* header_key / header_value pairs a HeaderContext can carry; the value of a
\* header written as "key: \n" is absent
HeaderInputs ==
    {[key |-> "title", value |-> Some(StartName)],
     [key |-> "title", value |-> Some(OtherName)],
     [key |-> "title", value |-> None],
     [key |-> "tags", value |-> Some(RawTextTag)],
     [key |-> "tags", value |-> Some(TagsPlain)],
     [key |-> "position", value |-> Some(PositionValue)]}

StatementKinds == {"line", "if"}
RECURSIVE SeqsUpTo(_, _)
SeqsUpTo(S, n) ==
    IF n = 0 THEN {<<>>}
    ELSE LET shorter == SeqsUpTo(S, n - 1)
         IN shorter \cup {Append(q, x) : q \in shorter, x \in S}
Bodies == SeqsUpTo(StatementKinds, MaxStatements)
StopLines == 0..MaxLine

(***************************************************************************)
(* The code generator's working state while one callback runs: the node    *)
(* under construction, its debug info, the label counter and the labels    *)
(* handed out so far.                                                      *)
(***************************************************************************)
Working(node, debug_info, count, issued) ==
    [node |-> node, debug_info |-> debug_info, label_count |-> count,
     issued |-> issued, label |-> EmptyString]

\* Emit: one instruction is appended to the current node, and its source
\* position is recorded in the current debug info under its index.
Emit(w, op_code, operands, source) ==
    [w EXCEPT
        !.node.instructions =
            Append(@, [opcode |-> op_code, operands |-> operands, source |-> source]),
        !.debug_info.line_positions = Append(@, source)]

\* register_label: "L" + counter + commentary; the counter goes up by one.
\* The label is returned in the field `label`.
register_label(w, commentary) ==
    LET label == <<"L">> \o FormatUsize(w.label_count) \o UnwrapOrDefault(commentary)
    IN [w EXCEPT !.label = label,
                 !.label_count = @ + 1,
                 !.issued = Append(@, label)]

\* Library::generate_unique_visited_variable_for_node
generate_unique_visited_variable_for_node(name) ==
    <<"$Yarn.Internal.Visiting.">> \o name

\* get_line_id_for_node_name(name).0
get_line_id_for_node_name(name) == <<"l", "i", "n", "e", ":">> \o name

\* CodeGenerationVisitor::generate_tracking_code: add one to the node's
\* visit counter.
generate_tracking_code(w, variable) ==
    LET w1 == Emit(w, "PushVariable", <<variable>>, DefaultPosition)
        w2 == Emit(w1, "PushFloat", <<1>>, DefaultPosition)
        w3 == Emit(w2, "PushFloat", <<2>>, DefaultPosition)
        w4 == Emit(w3, "CallFunc", <<"Number.Add">>, DefaultPosition)
        w5 == Emit(w4, "StoreVariable", <<variable>>, DefaultPosition)
    IN Emit(w5, "Pop", <<>>, DefaultPosition)

EndIfCommentary == <<"e", "n", "d", "i", "f">>

\* CodeGenerationVisitor::visit for one top-level statement: a line
\* statement lowers to one instruction; an if statement to a conditional
\* jump to a fresh label placed behind the statement's instructions.
VisitStatement(w, statement) ==
    IF statement = "line"
    THEN Emit(w, "RunLine", <<>>, DefaultPosition)
    ELSE LET w1 == register_label(w, Some(EndIfCommentary))
             w2 == Emit(w1, "JumpIfFalse", <<w1.label>>, DefaultPosition)
         IN [w2 EXCEPT !.node.labels =
                 MapInsert(@, w1.label, Len(w2.node.instructions))]

RECURSIVE VisitAll(_, _)
VisitAll(w, statements) ==
    IF statements = <<>> THEN w
    ELSE VisitAll(VisitStatement(w, Head(statements)), Tail(statements))

(***************************************************************************)
(* CompilationResult                                                       *)
(***************************************************************************)
InitialResult ==
    [program |-> None,
     string_table |-> <<>>,
     declarations |-> None,
     contains_implicit_string_tags |-> FALSE,
     file_tags |-> <<>>,
     diagnostics |-> <<>>,
     debug_info |-> <<>>]

EmptyJob ==
    [files |-> <<>>, library |-> None,
     compilation_type |-> "FullCompilation", variable_declarations |-> <<>>]

(***************************************************************************)
(* CompilerListener::new                                                   *)
(***************************************************************************)
ListenerNew ==
    /\ debug_infos = <<>>
    /\ program = DefaultProgram
    /\ tracking_nodes \in TrackingSets
    /\ diagnostics = <<>>
    /\ current_node = None
    /\ current_debug_info = DefaultDebugInfo
    /\ is_current_node_raw_text = FALSE
    /\ file_name \in FileNames
    /\ label_count = 0
    /\ pc = "file"
    /\ nodes_walked = 0
    /\ headers_walked = 0
    /\ statements_walked = 0
    /\ line_walked = -1
    /\ issued_labels = <<>>

\* no conversion and no type query under way
ValueIdle ==
    /\ original = None
    /\ held = None
    /\ path = <<>>

TypeIdle ==
    /\ type_subject = None
    /\ method_subject = None
    /\ type_answer = None

CoreIdle == ValueIdle /\ TypeIdle

\* the strings-file updating plugin is not installed
PluginIdle ==
    /\ events = <<>>
    /\ localizations = None
    /\ languages_to_update = <<>>
    /\ current_strings_file = None
    /\ files_on_disk = {}
    /\ load_states = <<>>
    /\ strings_files = <<>>
    /\ phase = "off"
    /\ last_run = None
    /\ frame = 0
    /\ in_development = FALSE
    /\ asset_events = <<>>
    /\ yarn_compilation = None
    /\ localizations_changed = FALSE
    /\ creation_events = <<>>

Init ==
    /\ ListenerNew
    /\ job = EmptyJob
    /\ step = 0
    /\ result = InitialResult
    /\ CoreIdle
    /\ PluginIdle

(***************************************************************************)
(* Listener callbacks, in the order the walk of                            *)
(*   node: header* BODY_START body BODY_END                                *)
(* raises them.                                                            *)
(***************************************************************************)
\* Mutant of enter_node: the label counter is reset with the rest of the
\* per-node state.
enter_node_resets_label_count ==
    /\ pc = "file"
    /\ nodes_walked < MaxNodes
    /\ current_node' = Some(DefaultNode)
    /\ current_debug_info' = DefaultDebugInfo
    /\ is_current_node_raw_text' = FALSE
    /\ label_count' = 0
    /\ pc' = "node"
    /\ nodes_walked' = nodes_walked + 1
    /\ UNCHANGED <<debug_infos, program, tracking_nodes, diagnostics,
                   file_name, headers_walked, statements_walked,
                   line_walked, issued_labels, compile_vars, core_vars,
                   plugin_vars>>

\* Mutant of enter_node: the debug info of the previous node is kept.
enter_node_keeps_debug_info ==
    /\ pc = "file"
    /\ nodes_walked < MaxNodes
    /\ current_node' = Some(DefaultNode)
    /\ is_current_node_raw_text' = FALSE
    /\ pc' = "node"
    /\ nodes_walked' = nodes_walked + 1
    /\ UNCHANGED <<debug_infos, program, tracking_nodes, diagnostics,
                   current_debug_info, file_name, label_count,
                   headers_walked, statements_walked, line_walked,
                   issued_labels, compile_vars, core_vars,
                   plugin_vars>>

enter_node ==
    /\ pc = "file"
    /\ nodes_walked < MaxNodes
    /\ current_node' = Some(DefaultNode)
    /\ current_debug_info' = DefaultDebugInfo
    /\ is_current_node_raw_text' = FALSE
    /\ pc' = "node"
    /\ nodes_walked' = nodes_walked + 1
    /\ UNCHANGED <<debug_infos, program, tracking_nodes, diagnostics,
                   file_name, label_count, headers_walked, statements_walked,
                   line_walked, issued_labels, compile_vars, core_vars,
                   plugin_vars>>

exit_header(key, value) ==
    /\ pc = "node"
    /\ headers_walked < MaxHeaders
    /\ headers_walked' = headers_walked + 1
    /\ LET node == current_node.value
           header_value == UnwrapOrDefault(value)
           named == IF key = "title" THEN [node EXCEPT !.name = header_value]
                    ELSE node
           tagged == IF key = "tags"
                     THEN [named EXCEPT !.tags = @ \o SplitOnSpace(header_value)]
                     ELSE named
           header == [key |-> key, value |-> header_value]
       IN /\ current_node' = Some([tagged EXCEPT !.headers = Append(@, header)])
          /\ is_current_node_raw_text' =
                 IF key = "tags" /\ Contains(tagged.tags, RawTextTag)
                 THEN TRUE ELSE is_current_node_raw_text
    /\ UNCHANGED <<debug_infos, program, tracking_nodes, diagnostics,
                   current_debug_info, file_name, label_count, pc,
                   nodes_walked, statements_walked, line_walked,
                   issued_labels, compile_vars, core_vars,
                   plugin_vars>>

\* Mutant of enter_body_code: the entry label is placed one past the next
\* instruction.
enter_body_code_label_off_by_one(w0, is_raw_text, statements) ==
    IF ~is_raw_text
    THEN LET w1 == register_label(w0, None)
             w2 == [w1 EXCEPT !.node.labels =
                       MapInsert(@, w1.label, Len(w1.node.instructions) + 1)]
         IN VisitAll(w2, statements)
    ELSE [w0 EXCEPT !.node.source_text_string_id =
                       get_line_id_for_node_name(w0.node.name)]

\* The body of enter_body, on the working state.
enter_body_code(w0, is_raw_text, statements) ==
    IF ~is_raw_text
    THEN LET w1 == register_label(w0, None)
             w2 == [w1 EXCEPT !.node.labels =
                       MapInsert(@, w1.label, Len(w1.node.instructions))]
         IN VisitAll(w2, statements)
    ELSE [w0 EXCEPT !.node.source_text_string_id =
                       get_line_id_for_node_name(w0.node.name)]

enter_body(statements) ==
    /\ pc = "node"
    /\ statements_walked + Len(statements) <= MaxStatements
    /\ statements_walked' = statements_walked + Len(statements)
    /\ LET w == enter_body_code(
                    Working(current_node.value, current_debug_info,
                            label_count, issued_labels),
                    is_current_node_raw_text, statements)
       IN /\ current_node' = Some(w.node)
          /\ current_debug_info' = w.debug_info
          /\ label_count' = w.label_count
          /\ issued_labels' = w.issued
    /\ pc' = "body"
    /\ UNCHANGED <<debug_infos, program, tracking_nodes, diagnostics,
                   is_current_node_raw_text, file_name, nodes_walked,
                   headers_walked, line_walked, compile_vars, core_vars,
                   plugin_vars>>

\* Mutant of exit_body_code: the stop is emitted only on the untracked path.
exit_body_code_stop_in_else(w0, tracking, stop_line) ==
    LET name == w0.node.name
    IN IF name \in tracking
       THEN generate_tracking_code(
                w0, generate_unique_visited_variable_for_node(name))
       ELSE Emit(w0, "Stop", <<>>,
                 [line |-> SaturatingSub(stop_line, 1), character |-> 0])

\* Mutant of exit_body_code: the tracking code is emitted for every node.
exit_body_code_always_tracks(w0, tracking, stop_line) ==
    LET name == w0.node.name
        w1 == generate_tracking_code(
                  w0, generate_unique_visited_variable_for_node(name))
    IN Emit(w1, "Stop", <<>>,
            [line |-> SaturatingSub(stop_line, 1), character |-> 0])

\* Mutant of exit_body_code: the stop is emitted before the tracking code.
exit_body_code_stop_first(w0, tracking, stop_line) ==
    LET name == w0.node.name
        w1 == Emit(w0, "Stop", <<>>,
                   [line |-> SaturatingSub(stop_line, 1), character |-> 0])
    IN IF name \in tracking
       THEN generate_tracking_code(
                w1, generate_unique_visited_variable_for_node(name))
       ELSE w1

\* The body of exit_body, on the working state.
\* Mutant of exit_body_code: the line of the Stop is one less than the
\* token's line, without the clamp at zero.
exit_body_code_unclamped_line(w0, tracking, stop_line) ==
    LET name == w0.node.name
        w1 == IF name \in tracking
              THEN generate_tracking_code(
                       w0, generate_unique_visited_variable_for_node(name))
              ELSE w0
    IN Emit(w1, "Stop", <<>>,
            [line |-> stop_line - 1, character |-> 0])

exit_body_code(w0, tracking, stop_line) ==
    LET name == w0.node.name
        w1 == IF name \in tracking
              THEN generate_tracking_code(
                       w0, generate_unique_visited_variable_for_node(name))
              ELSE w0
    IN Emit(w1, "Stop", <<>>,
            [line |-> SaturatingSub(stop_line, 1), character |-> 0])

exit_body(stop_line) ==
    /\ pc = "body"
    /\ stop_line > line_walked
    /\ line_walked' = stop_line
    /\ LET w == exit_body_code(
                    Working(current_node.value, current_debug_info,
                            label_count, issued_labels),
                    tracking_nodes, stop_line)
       IN /\ current_node' = Some(w.node)
          /\ current_debug_info' = w.debug_info
          /\ label_count' = w.label_count
          /\ issued_labels' = w.issued
    /\ pc' = "end"
    /\ UNCHANGED <<debug_infos, program, tracking_nodes, diagnostics,
                   is_current_node_raw_text, file_name, nodes_walked,
                   headers_walked, statements_walked, compile_vars, core_vars,
                   plugin_vars>>

\* What exit_node leaves in the shared lists and in the current debug info.
Exited(prog, diags, infos, info) ==
    [program |-> prog, diagnostics |-> diags, debug_infos |-> infos,
     current_debug_info |-> info]

\* Mutant of exit_node_code: the node is stored whether or not its name is
\* already present.
exit_node_code_overwrites(node, prog, diags, infos, info, file) ==
    IF node.name = EmptyString
    THEN Exited(prog,
                Append(diags, [message |-> MissingTitleMessage, file_name |-> file]),
                infos, info)
    ELSE LET tagged == [info EXCEPT !.node_name = node.name, !.file_name = file]
         IN Exited([prog EXCEPT !.nodes = MapInsert(@, node.name, node)],
                   diags, Append(infos, tagged), tagged)

\* Mutant of exit_node_code: the name check is missing, so that a node
\* without a name is diagnosed and stored as well.
exit_node_code_stores_unnamed(node, prog, diags, infos, info, file) ==
    LET stored == IF node.name \notin DOMAIN prog.nodes
                  THEN [prog EXCEPT !.nodes = MapInsert(@, node.name, node)]
                  ELSE prog
        tagged == [info EXCEPT !.node_name = node.name, !.file_name = file]
    IN IF node.name = EmptyString
       THEN Exited(stored,
                   Append(diags, [message |-> MissingTitleMessage, file_name |-> file]),
                   infos, info)
       ELSE Exited(stored, diags, Append(infos, tagged), tagged)

\* Mutant of exit_node_code: the debug info of the node takes the place of
\* the debug infos pushed before.
exit_node_code_restarts_debug_infos(node, prog, diags, infos, info, file) ==
    IF node.name = EmptyString
    THEN Exited(prog,
                Append(diags, [message |-> MissingTitleMessage, file_name |-> file]),
                infos, info)
    ELSE LET stored == IF node.name \notin DOMAIN prog.nodes
                       THEN [prog EXCEPT !.nodes = MapInsert(@, node.name, node)]
                       ELSE prog
             tagged == [info EXCEPT !.node_name = node.name, !.file_name = file]
         IN Exited(stored, diags, <<tagged>>, tagged)

\* The body of exit_node up to the reset of the current node.
exit_node_code(node, prog, diags, infos, info, file) ==
    IF node.name = EmptyString
    THEN Exited(prog,
                Append(diags, [message |-> MissingTitleMessage, file_name |-> file]),
                infos, info)
    ELSE LET stored == IF node.name \notin DOMAIN prog.nodes
                       THEN [prog EXCEPT !.nodes = MapInsert(@, node.name, node)]
                       ELSE prog
             tagged == [info EXCEPT !.node_name = node.name, !.file_name = file]
         IN Exited(stored, diags, Append(infos, tagged), tagged)

exit_node ==
    /\ pc = "end"
    /\ LET e == exit_node_code(current_node.value, program, diagnostics,
                               debug_infos, current_debug_info, file_name)
       IN /\ program' = e.program
          /\ diagnostics' = e.diagnostics
          /\ debug_infos' = e.debug_infos
          /\ current_debug_info' = e.current_debug_info
    /\ current_node' = None
    /\ is_current_node_raw_text' = FALSE
    /\ pc' = "file"
    /\ UNCHANGED <<tracking_nodes, file_name, label_count, nodes_walked,
                   headers_walked, statements_walked, line_walked,
                   issued_labels, compile_vars, core_vars,
                   plugin_vars>>

Next ==
    \/ enter_node
    \/ \E h \in HeaderInputs : exit_header(h.key, h.value)
    \/ \E statements \in Bodies : enter_body(statements)
    \/ \E stop_line \in StopLines : exit_body(stop_line)
    \/ exit_node

Spec == Init /\ [][Next]_vars

(***************************************************************************)
(* register_label on its own: any sequence of calls on one listener.       *)
(***************************************************************************)
Commentaries == {None, Some(<<"0">>), Some(EndIfCommentary)}

call_register_label(commentary) ==
    /\ label_count < MaxLabels
    /\ LET w == register_label(
                    Working(current_node, current_debug_info,
                            label_count, issued_labels),
                    commentary)
       IN /\ label_count' = w.label_count
          /\ issued_labels' = w.issued
    /\ UNCHANGED <<debug_infos, program, tracking_nodes, diagnostics,
                   current_node, current_debug_info,
                   is_current_node_raw_text, file_name, pc, nodes_walked,
                   headers_walked, statements_walked, line_walked,
                   compile_vars, core_vars,
                   plugin_vars>>

InitLabel == Init /\ tracking_nodes = {}
NextLabel == \E commentary \in Commentaries : call_register_label(commentary)
SpecLabel == InitLabel /\ [][NextLabel]_vars

(***************************************************************************)
(* compile: the fold of the passes over the initial result.                *)
(***************************************************************************)
SourceTexts == {"title: Start\n---\n===\n", "title: Start\n---\nHello\n===\n"}
JobFileNames == {"a.yarn", "b.yarn"}
FileInputs == [file_name : JobFileNames, source : SourceTexts]
Jobs ==
    [files : SeqsUpTo(FileInputs, MaxFiles),
     library : {None, Some("library")},
     compilation_type : {"FullCompilation"},
     variable_declarations : {<<>>}]

add_built_in_types(j, previous) == previous

create_string_tables(j, previous) == previous

compiler_steps == <<"add_built_in_types", "create_string_tables">>

\* CompilerStep::apply
apply(step_name, j, previous) ==
    IF step_name = "add_built_in_types" THEN add_built_in_types(j, previous)
    ELSE create_string_tables(j, previous)

\* one round of the fold in compile
compile_step ==
    /\ step < Len(compiler_steps)
    /\ result' = apply(compiler_steps[step + 1], job, result)
    /\ step' = step + 1
    /\ UNCHANGED <<job, listener_vars, core_vars,
                   plugin_vars>>

\* compile has returned `result`
CompileReturned == step = Len(compiler_steps)

InitCompile ==
    /\ ListenerNew
    /\ job \in Jobs
    /\ step = 0
    /\ result = InitialResult
    /\ CoreIdle
    /\ PluginIdle

NextCompile == compile_step
SpecCompile == InitCompile /\ [][NextCompile]_vars

(***************************************************************************)
(* f32, as far as Convertible uses it (crates/core/src/value/convertible.rs)*)
(*                                                                         *)
(* A finite f32 is a sign, a mantissa and a binary exponent; its magnitude *)
(* is mantissa * 2^exponent.  A normal value has a mantissa of 24 bits, at *)
(* least 2^MantissaBits, and an exponent from MinExponent to MaxExponent;  *)
(* a subnormal value and the two zeros have a smaller mantissa and the     *)
(* exponent MinExponent.  Every f32 is written in exactly one way.  NaN is *)
(* one value: no operation of Convertible tells one NaN from another.      *)
(***************************************************************************)
MantissaBits == 23
MinExponent == -149
MaxExponent == 104

Finite(negative, mantissa, exponent) ==
    [class |-> "finite", negative |-> negative,
     mantissa |-> mantissa, exponent |-> exponent]
NaN == [class |-> "nan"]
Inf(neg) == [class |-> "inf", negative |-> neg]

Zero == Finite(FALSE, 0, MinExponent)
NegativeZero == Finite(TRUE, 0, MinExponent)
One == Finite(FALSE, 2^MantissaBits, -MantissaBits)
MinusOne == Finite(TRUE, 2^MantissaBits, -MantissaBits)
Two == Finite(FALSE, 2^MantissaBits, 1 - MantissaBits)
\* f32::MAX
F32Max == Finite(FALSE, 2 * 2^MantissaBits - 1, MaxExponent)
\* the f32 nearest to the decimal literals 1e-7, 1e-6 and 1e-9
Literal1em7 == Finite(FALSE, 14073749, -47)
Literal1em6 == Finite(FALSE, 8796093, -43)
Literal1em9 == Finite(FALSE, 9007199, -53)

Abs(n) == IF n < 0 THEN -n ELSE n

\* the low bits a magnitude has beyond the 24 an f32 mantissa holds
RECURSIVE ExcessBits(_)
ExcessBits(n) ==
    IF n < 2 * 2^MantissaBits THEN 0 ELSE 1 + ExcessBits(n \div 2)

\* a magnitude m * 2^q of no more than 24 bits, written as an f32 holds
\* it: the mantissa is moved up to 24 bits unless the exponent reaches
\* MinExponent first (m > 0, q >= MinExponent)
RECURSIVE Normalised(_, _)
Normalised(m, q) ==
    IF m < 2^MantissaBits /\ q > MinExponent
    THEN Normalised(2 * m, q - 1)
    ELSE [mantissa |-> m, exponent |-> q]

\* the f32 of a rounded mantissa: a mantissa rounded up to 25 bits moves to
\* the next exponent, and an exponent beyond MaxExponent is infinity
F32Rounded(negative, rounded, q) ==
    IF rounded = 2 * 2^MantissaBits
    THEN (IF q + 1 > MaxExponent THEN Inf(negative)
          ELSE Finite(negative, 2^MantissaBits, q + 1))
    ELSE IF q > MaxExponent THEN Inf(negative)
    ELSE Finite(negative, rounded, q)

\* the f32 nearest to (n + g) * 2^q, ties to even, for a natural n below
\* 2^31 and a fraction 0 <= g < 1 of which it is known only whether it
\* is above 0 (`sticky`); q >= MinExponent, and g = 0 when n has no more
\* than 24 bits
F32Round(negative, n, sticky, q) ==
    IF n = 0 THEN Finite(negative, 0, MinExponent)
    ELSE IF n < 2 * 2^MantissaBits
         THEN Finite(negative, Normalised(n, q).mantissa,
                     Normalised(n, q).exponent)
    ELSE LET s == ExcessBits(n)
             floor == n \div 2^s
             rest == n % 2^s
             up == \/ 2 * rest > 2^s
                   \/ 2 * rest = 2^s /\ (sticky \/ floor % 2 = 1)
         IN  F32Rounded(negative, IF up THEN floor + 1 ELSE floor, q + s)

\* x + y of two finite values, x the one with the exponent that is not
\* the smaller, d the difference of the exponents.  Up to d = 6 the sum is
\* an integer of the model in units of y's last place.  Beyond, it is
\* taken in quarters of x's last place: y gives the whole quarters it
\* holds and, as the sticky bit, whether anything of it is left over.
\* A sum of zero has the sign of the operands when they agree in sign and
\* is +0.0 otherwise.
AddFinite(x, y, d) ==
    IF d <= 6
    THEN IF x.negative = y.negative
         THEN F32Round(x.negative, x.mantissa * 2^d + y.mantissa, FALSE,
                       y.exponent)
         ELSE IF x.mantissa * 2^d = y.mantissa THEN Zero
         ELSE F32Round(IF x.mantissa * 2^d > y.mantissa
                       THEN x.negative ELSE y.negative,
                       Abs(x.mantissa * 2^d - y.mantissa), FALSE, y.exponent)
    ELSE LET quarters == IF d >= 26 THEN 0 ELSE (4 * y.mantissa) \div 2^d
             sticky == IF d >= 26 THEN y.mantissa # 0
                       ELSE (4 * y.mantissa) % 2^d # 0
         IN  IF x.negative = y.negative
             THEN F32Round(x.negative, 4 * x.mantissa + quarters, sticky,
                           x.exponent - 2)
             ELSE F32Round(x.negative,
                           4 * x.mantissa - quarters
                               - (IF sticky THEN 1 ELSE 0),
                           sticky, x.exponent - 2)

\* x + y: the exact sum rounded to the nearest f32, ties to even; a sum
\* beyond f32::MAX is an infinity
F32Add(x, y) ==
    IF x.class = "nan" \/ y.class = "nan" THEN NaN
    ELSE IF x.class = "inf" /\ y.class = "inf"
         THEN IF x.negative = y.negative THEN x ELSE NaN
    ELSE IF x.class = "inf" THEN x
    ELSE IF y.class = "inf" THEN y
    ELSE IF x.exponent >= y.exponent
         THEN AddFinite(x, y, x.exponent - y.exponent)
    ELSE AddFinite(y, x, y.exponent - x.exponent)

F32Neg(x) ==
    IF x.class = "nan" THEN NaN
    ELSE IF x.class = "inf" THEN Inf(~x.negative)
    ELSE Finite(~x.negative, x.mantissa, x.exponent)

\* a - b
F32Sub(x, y) == F32Add(x, F32Neg(y))

\* f32::abs
F32Abs(x) ==
    IF x.class = "nan" THEN NaN
    ELSE IF x.class = "inf" THEN Inf(FALSE)
    ELSE Finite(FALSE, x.mantissa, x.exponent)

\* |x| < |y| for finite values: by exponent, then by mantissa
MagnitudeLess(x, y) ==
    \/ x.exponent < y.exponent
    \/ x.exponent = y.exponent /\ x.mantissa < y.mantissa

\* x < y; every comparison with NaN is false, and -0.0 is not below 0.0
F32Lt(x, y) ==
    IF x.class = "nan" \/ y.class = "nan" THEN FALSE
    ELSE IF x.class = "inf" THEN x.negative /\ y # x
    ELSE IF y.class = "inf" THEN ~y.negative
    ELSE IF x.negative /\ y.negative THEN MagnitudeLess(y, x)
    ELSE IF x.negative THEN x.mantissa # 0 \/ y.mantissa # 0
    ELSE IF y.negative THEN FALSE
    ELSE MagnitudeLess(x, y)

\* x != 0.0; NaN differs from everything, -0.0 equals 0.0
F32NonZero(x) == ~(x.class = "finite" /\ x.mantissa = 0)

\* 1.0 + 1e-7, evaluated in f32
OnePlus == F32Add(One, Literal1em7)

(***************************************************************************)
(* Convertible (crates/core/src/value/convertible.rs)                      *)
(***************************************************************************)
Ok(v) == [tag |-> "Ok", value |-> v]
Err(e) == [tag |-> "Err", error |-> e]

\* InvalidCastError
ParseFloatError == [kind |-> "ParseFloatError"]
ParseBoolError == [kind |-> "ParseBoolError"]
InvalidTypeId(id) == [kind |-> "InvalidTypeId", type_id |-> id]

\* the payload of a variant is the field named after the variant
ConvertibleNumber(f) == [variant |-> "Number", Number |-> f]
ConvertibleString(s) == [variant |-> "String", String |-> s]
ConvertibleBoolean(b) == [variant |-> "Boolean", Boolean |-> b]

TrueText == <<"t", "r", "u", "e">>
FalseText == <<"f", "a", "l", "s", "e">>
MaybeText == <<"m", "a", "y", "b", "e">>
CapitalTrueText == <<"T", "r", "u", "e">>
OneText == <<"1">>

(***************************************************************************)
(* Naturals of any size, for the decimal expansions f32::to_string writes  *)
(* and str::parse::<f32> reads: a sequence of limbs below Base, the most   *)
(* significant first and no zero limb in front; zero is the empty          *)
(* sequence.  Carries are looked ahead, not rippled, so that no operation  *)
(* recurses over the limbs.                                                *)
(***************************************************************************)
Base == 10000
BaseDigits == 4

Max(a, b) == IF a >= b THEN a ELSE b
\* the least member of a non-empty set of integers
Least(S) == CHOOSE i \in S : \A j \in S : i <= j

BigTrim(a) ==
    IF \A i \in 1..Len(a) : a[i] = 0 THEN <<>>
    ELSE SubSeq(a, Least({i \in 1..Len(a) : a[i] # 0}), Len(a))

\* a with zeros in front, n limbs long (n >= Len(a))
BigPad(a, n) == [i \in 1..(n - Len(a)) |-> 0] \o a

\* a with n zero limbs behind: a * Base^n
BigShift(a, n) == IF a = <<>> THEN <<>> ELSE a \o [i \in 1..n |-> 0]

\* n < 2^31
BigOfInt(n) == BigTrim(<<n \div (Base * Base), (n \div Base) % Base, n % Base>>)

\* a below 2^31
BigToInt(a) ==
    LET x == BigPad(a, 3) IN x[1] * Base * Base + x[2] * Base + x[3]

\* a < b
BigLess(a, b) ==
    LET n == Max(Len(a), Len(b))
        x == BigPad(a, n)
        y == BigPad(b, n)
    IN  \E i \in 1..n : x[i] < y[i] /\ \A j \in 1..(i - 1) : x[j] = y[j]

\* a + b: a limb receives a carry when the first limb behind it that is
\* not exactly full overflows
BigAdd(a, b) ==
    LET n == Max(Len(a), Len(b)) + 1
        x == BigPad(a, n)
        y == BigPad(b, n)
        carry(i) ==
            IF \A k \in (i + 1)..n : x[k] + y[k] = Base - 1 THEN 0
            ELSE LET j == CHOOSE j \in (i + 1)..n :
                              /\ x[j] + y[j] # Base - 1
                              /\ \A k \in (i + 1)..(j - 1) :
                                     x[k] + y[k] = Base - 1
                 IN  IF x[j] + y[j] >= Base THEN 1 ELSE 0
    IN  BigTrim([i \in 1..n |-> (x[i] + y[i] + carry(i)) % Base])

\* a - b, for a >= b
BigSub(a, b) ==
    LET n == Max(Len(a), Len(b))
        x == BigPad(a, n)
        y == BigPad(b, n)
        borrow(i) ==
            IF \A k \in (i + 1)..n : x[k] = y[k] THEN 0
            ELSE LET j == CHOOSE j \in (i + 1)..n :
                              /\ x[j] # y[j]
                              /\ \A k \in (i + 1)..(j - 1) : x[k] = y[k]
                 IN  IF x[j] < y[j] THEN 1 ELSE 0
    IN  BigTrim([i \in 1..n |-> (x[i] - y[i] - borrow(i) + Base) % Base])

\* a * c, for 0 <= c <= 200000: the limb products, split into limbs
BigMulSmall(a, c) ==
    LET n == Len(a)
    IN  BigAdd(BigTrim([i \in 1..n |-> (a[i] * c) % Base]),
               BigAdd(BigShift(BigTrim([i \in 1..n |->
                                           ((a[i] * c) \div Base) % Base]), 1),
                      BigShift(BigTrim([i \in 1..n |->
                                           (a[i] * c) \div (Base * Base)]), 2)))

\* a * n, for 0 <= n < 2^31
BigMulInt(a, n) ==
    BigAdd(BigMulSmall(a, n % Base),
           BigAdd(BigShift(BigMulSmall(a, (n \div Base) % Base), 1),
                  BigShift(BigMulSmall(a, n \div (Base * Base)), 2)))

\* a * base^e for base 2, 5 or 10, several factors at a time
RECURSIVE BigTimesPower(_, _, _)
BigTimesPower(a, base, e) ==
    IF a = <<>> \/ e = 0 THEN a
    ELSE IF base = 10
         THEN BigMulSmall(BigShift(a, e \div BaseDigits), 10^(e % BaseDigits))
    ELSE IF e >= 7
         THEN BigTimesPower(BigMulSmall(a, base^7), base, e - 7)
    ELSE BigMulSmall(a, base^e)

\* decimal digits, the most significant first, as limbs
BigOfDigits(digits) ==
    LET n == (Len(digits) + BaseDigits - 1) \div BaseDigits
        d == [i \in 1..(n * BaseDigits - Len(digits)) |-> 0] \o digits
    IN  BigTrim([i \in 1..n |->
                    1000 * d[4 * i - 3] + 100 * d[4 * i - 2]
                        + 10 * d[4 * i - 1] + d[4 * i]])

\* the limbs of a as decimal digits, with zeros in front
BigDigits(a) ==
    [i \in 1..(BaseDigits * Len(a)) |->
        (a[(i + BaseDigits - 1) \div BaseDigits]
            \div 10^((BaseDigits * Len(a) - i) % BaseDigits)) % 10]

\* the eight decimal digits of n \div d < 10^8, found one place at a time
RECURSIVE BigQuotient(_, _, _, _)
BigQuotient(n, d, place, quot) ==
    LET digit == CHOOSE x \in 0..9 :
                     /\ ~BigLess(n, BigMulInt(d, quot + x * place))
                     /\ x < 9 => BigLess(n, BigMulInt(d, quot + (x + 1) * place))
    IN  IF place = 1 THEN quot + digit
        ELSE BigQuotient(n, d, place \div 10, quot + digit * place)

(***************************************************************************)
(* f32 and text: str::parse::<f32> and f32::to_string.                     *)
(***************************************************************************)
IsDigit(c) == \E d \in 0..9 : DigitChars[d + 1] = c
DigitValue(c) == CHOOSE d \in 0..9 : DigitChars[d + 1] = c
DigitText(a) == [i \in 1..Len(a) |-> DigitChars[a[i] + 1]]
DigitValues(s) == [i \in 1..Len(s) |-> DigitValue(s[i])]

\* the length of the run of digits s starts with
DigitRun(s) ==
    IF \A i \in 1..Len(s) : IsDigit(s[i]) THEN Len(s)
    ELSE Least({i \in 1..Len(s) : ~IsDigit(s[i])}) - 1

UpperCase ==
    <<"A", "B", "C", "D", "E", "F", "G", "H", "I", "J", "K", "L", "M",
      "N", "O", "P", "Q", "R", "S", "T", "U", "V", "W", "X", "Y", "Z">>
LowerCase ==
    <<"a", "b", "c", "d", "e", "f", "g", "h", "i", "j", "k", "l", "m",
      "n", "o", "p", "q", "r", "s", "t", "u", "v", "w", "x", "y", "z">>
ToAsciiLowercase(s) ==
    [i \in 1..Len(s) |->
        IF \E j \in DOMAIN UpperCase : UpperCase[j] = s[i]
        THEN LowerCase[CHOOSE j \in DOMAIN UpperCase : UpperCase[j] = s[i]]
        ELSE s[i]]

\* the decimal exponent a run of digits spells, as str::parse::<f32>
\* accumulates it: a digit is taken in while the exponent read so far is
\* below 0x10000 = 65536, and the digits after that are skipped.  Zeros
\* in front leave the exponent at 0; of the other digits five are always
\* taken in, and a sixth when the first five spell less than 65536.
ExponentValue(s) ==
    LET d == DigitValues(s)
        zeros == IF \A i \in 1..Len(d) : d[i] = 0 THEN Len(d)
                 ELSE Least({i \in 1..Len(d) : d[i] # 0}) - 1
        Taken(n) == BigToInt(BigOfDigits(SubSeq(d, zeros + 1, zeros + n)))
    IN  IF Len(d) - zeros <= 5 THEN Taken(Len(d) - zeros)
        ELSE IF Taken(5) < 65536 THEN Taken(6)
        ELSE Taken(5)

\* digits * 10^e * 2^-q as a fraction of two naturals
DecimalNumerator(digits, e, q) ==
    BigTimesPower(BigTimesPower(BigOfDigits(digits), 10, Max(e, 0)),
                  2, Max(-q, 0))
DecimalDenominator(e, q) ==
    BigTimesPower(BigTimesPower(<<1>>, 10, Max(-e, 0)), 2, Max(q, 0))

\* the decimal magnitude of non-zero digits * 10^e: the value lies in
\* [10^(magnitude - 1), 10^magnitude)
DecimalMagnitude(digits, e) ==
    LET significant == BigDigits(BigOfDigits(digits))
    IN  Len(significant) + 1 + e
            - Least({i \in 1..Len(significant) : significant[i] # 0})

\* the quotient num / den has exactly 24 bits
MantissaFits(num, den) ==
    /\ ~BigLess(num, BigMulInt(den, 2^MantissaBits))
    /\ BigLess(num, BigMulInt(den, 2 * 2^MantissaBits))

\* the binary exponents around 3.32 times a decimal magnitude
NearExponents(magnitude) ==
    (((magnitude - 1) * 3321) \div 1000 - MantissaBits - 1)
        .. ((magnitude * 3322) \div 1000 - MantissaBits + 1)

\* the binary exponent q that leaves digits * 10^e * 2^-q a quotient of 24
\* bits, and no lower than MinExponent (a subnormal has fewer bits)
BinaryExponent(digits, e) ==
    IF \E q \in NearExponents(DecimalMagnitude(digits, e)) :
           /\ q >= MinExponent
           /\ MantissaFits(DecimalNumerator(digits, e, q),
                           DecimalDenominator(e, q))
    THEN CHOOSE q \in NearExponents(DecimalMagnitude(digits, e)) :
             /\ q >= MinExponent
             /\ MantissaFits(DecimalNumerator(digits, e, q),
                             DecimalDenominator(e, q))
    ELSE MinExponent

\* num / den rounded to the nearest integer, ties to even
RoundedQuotient(num, den) ==
    LET floor == BigQuotient(num, den, 10000000, 0)
        twice == BigMulSmall(BigSub(num, BigMulInt(den, floor)), 2)
    IN  IF BigLess(den, twice) \/ (twice = den /\ floor % 2 = 1)
        THEN floor + 1
        ELSE floor

\* the f32 nearest to digits * 10^e at the binary exponent q
dec2flt_at(negative, digits, e, q) ==
    F32Rounded(negative,
               RoundedQuotient(DecimalNumerator(digits, e, q),
                               DecimalDenominator(e, q)),
               q)

\* the f32 nearest to digits * 10^e, ties to even: decimal to float.
\* Beyond 40 decimal places the value is above f32::MAX, below -46 it is
\* under half the least subnormal.  A zero keeps the sign of the text.
dec2flt(negative, digits, e) ==
    IF BigOfDigits(digits) = <<>> THEN Finite(negative, 0, MinExponent)
    ELSE IF DecimalMagnitude(digits, e) > 40 THEN Inf(negative)
    ELSE IF DecimalMagnitude(digits, e) < -46
         THEN Finite(negative, 0, MinExponent)
    ELSE dec2flt_at(negative, digits, e, BinaryExponent(digits, e))

\* an integer `as f32`: the nearest f32, ties to even
IntAsF32(n) == dec2flt(n < 0, BigDigits(BigOfInt(Abs(n))), 0)

\* the exponent part of a decimal text, after its e: an optional sign and
\* at least one digit, nothing else
parse_exponent(negative, digits, decimals, exponent) ==
    LET exponent_signed == exponent # <<>> /\ exponent[1] \in {"+", "-"}
        exponent_digits == IF exponent_signed THEN Tail(exponent) ELSE exponent
        e == IF exponent_signed /\ exponent[1] = "-"
             THEN -ExponentValue(exponent_digits)
             ELSE ExponentValue(exponent_digits)
    IN  IF exponent_digits = <<>>
           \/ DigitRun(exponent_digits) # Len(exponent_digits)
        THEN Err(ParseFloatError)
        ELSE Ok(dec2flt(negative, DigitValues(digits), e - decimals))

\* what follows the digits of a decimal text: nothing or an exponent; a
\* text with no digit before or after the point is malformed
parse_after_fraction(negative, integer, fraction, rest) ==
    IF integer \o fraction = <<>> THEN Err(ParseFloatError)
    ELSE IF rest = <<>>
         THEN Ok(dec2flt(negative, DigitValues(integer \o fraction),
                         -Len(fraction)))
    ELSE IF rest[1] \in {"e", "E"}
         THEN parse_exponent(negative, integer \o fraction, Len(fraction),
                             Tail(rest))
    ELSE Err(ParseFloatError)

\* what follows the integer digits of a decimal text: an optional point
\* with the digits of the fraction
parse_after_integer(negative, integer, rest) ==
    IF rest # <<>> /\ rest[1] = "."
    THEN parse_after_fraction(
             negative, integer,
             SubSeq(Tail(rest), 1, DigitRun(Tail(rest))),
             SubSeq(Tail(rest), DigitRun(Tail(rest)) + 1, Len(Tail(rest))))
    ELSE parse_after_fraction(negative, integer, <<>>, rest)

\* str::parse::<f32>: an optional sign, then inf, infinity or nan in any
\* case, or digits with an optional point and an optional exponent, with
\* a digit before or after the point; anything else is a ParseFloatError
parse_f32(s) ==
    LET negative == s # <<>> /\ s[1] = "-"
        body == IF s # <<>> /\ s[1] \in {"+", "-"} THEN Tail(s) ELSE s
        name == ToAsciiLowercase(body)
    IN  IF name \in {<<"i", "n", "f">>,
                     <<"i", "n", "f", "i", "n", "i", "t", "y">>}
        THEN Ok(Inf(negative))
        ELSE IF name = <<"n", "a", "n">> THEN Ok(NaN)
        ELSE parse_after_integer(
                 negative,
                 SubSeq(body, 1, DigitRun(body)),
                 SubSeq(body, DigitRun(body) + 1, Len(body)))

\* str::parse::<bool>
parse_bool_accepts_capitals(s) ==
    IF s = TrueText \/ s = CapitalTrueText THEN Ok(TRUE)
    ELSE IF s = FalseText THEN Ok(FALSE)
    ELSE Err(ParseBoolError)

parse_bool(s) ==
    IF s = TrueText THEN Ok(TRUE)
    ELSE IF s = FalseText THEN Ok(FALSE)
    ELSE Err(ParseBoolError)

\* decimal digits v cut behind digit p, and the cut plus one unit of
\* digit p (one digit longer than v)
FloorAt(v, p) == [i \in 1..Len(v) |-> IF i <= p THEN v[i] ELSE 0]
CeilAt(v, p) ==
    LET w == <<0>> \o v
        j == CHOOSE i \in 1..(p + 1) :
                 w[i] # 9 /\ \A k \in (i + 1)..(p + 1) : w[k] = 9
    IN  [i \in 1..Len(w) |->
            IF i < j THEN w[i] ELSE IF i = j THEN w[j] + 1 ELSE 0]

\* low < c < high as decimal digits, the bounds allowed when inclusive
Within(low, c, high, inclusive) ==
    IF inclusive THEN ~BigLess(c, low) /\ ~BigLess(high, c)
    ELSE BigLess(low, c) /\ BigLess(c, high)

\* the shortest digits that lie between low and high, and of those the
\* digits nearest to v, the upper ones on a tie: v is cut behind its first
\* digit p where the cut, or the cut plus one unit, stays within the bounds
format_shortest(low, v, high, inclusive) ==
    LET DownOk(p) == Within(low, FloorAt(v, p), high, inclusive)
        UpOk(p) == Within(low, CeilAt(v, p), high, inclusive)
        p == CHOOSE c \in 1..Len(v) :
                 /\ DownOk(c) \/ UpOk(c)
                 /\ \A r \in 1..(c - 1) : ~DownOk(r) /\ ~UpOk(r)
        half == p < Len(v) /\ v[p + 1] >= 5
    IN  IF UpOk(p) /\ (~DownOk(p) \/ half) THEN CeilAt(v, p) ELSE FloorAt(v, p)

\* decimal digits without the zeros in front, or behind
TrimFront(a) ==
    IF \A i \in 1..Len(a) : a[i] = 0 THEN <<>>
    ELSE SubSeq(a, CHOOSE i \in 1..Len(a) :
                       a[i] # 0 /\ \A j \in 1..(i - 1) : a[j] = 0,
                Len(a))

TrimEnd(a) ==
    IF \A i \in 1..Len(a) : a[i] = 0 THEN <<>>
    ELSE SubSeq(a, 1, CHOOSE i \in 1..Len(a) :
                          a[i] # 0 /\ \A j \in (i + 1)..Len(a) : a[j] = 0)

\* digits of which the last `decimals` stand behind the point, written
\* without exponent, without zeros at either end and with a 0 for an empty
\* integer part
FormatDecimal(digits, decimals) ==
    LET whole == TrimFront(SubSeq(digits, 1, Len(digits) - decimals))
        fraction == TrimEnd(SubSeq(digits, Len(digits) - decimals + 1,
                                   Len(digits)))
    IN  (IF whole = <<>> THEN <<"0">> ELSE DigitText(whole))
            \o (IF fraction = <<>> THEN <<>> ELSE <<".">> \o DigitText(fraction))

\* f32::to_string: the shortest decimal that reads back as the same f32.
\* The value and the midpoints to its two neighbours are taken in units
\* of a quarter of its last place.  The decoder of the standard library
\* puts the lower midpoint of a normal value with the least mantissa at
\* half the distance, and takes the midpoints into the range when the
\* decoded mantissa is even, which that of a subnormal value always is.
\* The sign is written for every negative value, -0.0 included, and never
\* for NaN.
F32ToString(f) ==
    IF f.class = "nan" THEN <<"N", "a", "N">>
    ELSE IF f.class = "inf"
         THEN (IF f.negative THEN <<"-">> ELSE <<>>) \o <<"i", "n", "f">>
    ELSE IF f.mantissa = 0
         THEN (IF f.negative THEN <<"-">> ELSE <<>>) \o <<"0">>
    ELSE LET M == f.mantissa
             t == 2 - f.exponent
             minus == IF M = 2^MantissaBits THEN 1 ELSE 2
             inclusive == M < 2^MantissaBits \/ M % 2 = 0
             decimals == Max(t, 0)
             Units(x) == IF t >= 0 THEN BigTimesPower(BigOfInt(x), 5, t)
                         ELSE BigTimesPower(BigOfInt(x), 2, -t)
             len == Max(BaseDigits * Len(Units(4 * M + 2)), decimals + 1)
             Digits(x) == BigPad(BigDigits(Units(x)), len)
             digits == format_shortest(Digits(4 * M - minus), Digits(4 * M),
                                       Digits(4 * M + 2), inclusive)
         IN  (IF f.negative THEN <<"-">> ELSE <<>>)
                 \o FormatDecimal(digits, decimals)

BoolToString(b) == IF b THEN TrueText ELSE FalseText

\* Convertible::eq
eq_ignores_epsilon(a, b, epsilon) ==
    IF a.variant = "Number" /\ b.variant = "Number"
    THEN Ok(F32Lt(F32Abs(F32Sub(a.Number, b.Number)), Literal1em6))
    ELSE Ok(a = b)

eq(a, b, epsilon) ==
    IF a.variant = "Number" /\ b.variant = "Number"
    THEN Ok(F32Lt(F32Abs(F32Sub(a.Number, b.Number)), epsilon))
    ELSE Ok(a = b)

\* impl TryFrom<Convertible> for f32
TryIntoF32(c) ==
    IF c.variant = "Number" THEN Ok(c.Number)
    ELSE IF c.variant = "String" THEN parse_f32(c.String)
    ELSE Ok(IF c.Boolean THEN One ELSE Zero)

\* impl From<f32> for Convertible
FromF32(f) == ConvertibleNumber(f)

\* impl TryFrom<Convertible> for String
TryIntoString(c) ==
    IF c.variant = "Number" THEN Ok(F32ToString(c.Number))
    ELSE IF c.variant = "String" THEN Ok(c.String)
    ELSE Ok(BoolToString(c.Boolean))

\* impl From<String> for Convertible
FromString(s) == ConvertibleString(s)

\* impl TryFrom<Convertible> for bool
TryIntoBool_number_inverted(c) ==
    IF c.variant = "Number" THEN Ok(~F32NonZero(c.Number))
    ELSE IF c.variant = "String" THEN parse_bool(c.String)
    ELSE Ok(c.Boolean)

TryIntoBool(c) ==
    IF c.variant = "Number" THEN Ok(F32NonZero(c.Number))
    ELSE IF c.variant = "String" THEN parse_bool(c.String)
    ELSE Ok(c.Boolean)

\* impl From<bool> for Convertible
FromBool(b) == ConvertibleBoolean(b)

\* Box<dyn Any>: the type id of the boxed value and the value
\* and the value is the field named after the type
Box(id, v) == ("type_id" :> id) @@ (id :> v)
Unbox(box) == box[box.type_id]

\* impl TryFrom<Convertible> for Box<dyn Any>
TryIntoBox(c) ==
    IF c.variant = "Number" THEN Ok(Box("f32", c.Number))
    ELSE IF c.variant = "String" THEN Ok(Box("String", c.String))
    ELSE Ok(Box("bool", c.Boolean))

FloatTypeIds == {"f32", "f64"}
IntegerTypeIds ==
    {"i8", "i16", "i32", "i64", "i128",
     "u8", "u16", "u32", "u64", "u128", "usize", "isize"}

\* `*value as f32` of a boxed number; the f64 values boxed here are ones
\* an f32 holds exactly
BoxedAsF32(box) ==
    IF box.type_id \in FloatTypeIds THEN Unbox(box) ELSE IntAsF32(Unbox(box))

\* value.type_id() on the Box<dyn Any> itself: the id of Box<dyn Any>,
\* whatever is boxed
BoxDynAny == "Box<dyn Any>"

\* impl TryFrom<Box<dyn Any>> for Convertible
TryFromBox_misses_isize(box) ==
    IF box.type_id \in (FloatTypeIds \cup IntegerTypeIds) \ {"isize"}
    THEN Ok(ConvertibleNumber(BoxedAsF32(box)))
    ELSE IF box.type_id = "String" THEN Ok(ConvertibleString(Unbox(box)))
    ELSE IF box.type_id = "bool" THEN Ok(ConvertibleBoolean(Unbox(box)))
    ELSE Err(InvalidTypeId(BoxDynAny))

TryFromBox(box) ==
    IF box.type_id \in FloatTypeIds \cup IntegerTypeIds
    THEN Ok(ConvertibleNumber(BoxedAsF32(box)))
    ELSE IF box.type_id = "String" THEN Ok(ConvertibleString(Unbox(box)))
    ELSE IF box.type_id = "bool" THEN Ok(ConvertibleBoolean(Unbox(box)))
    ELSE Err(InvalidTypeId(BoxDynAny))

(***************************************************************************)
(* Chains of conversions on one value: a Convertible is converted into a   *)
(* host value (bool, f32, String, Box<dyn Any>), a host value back into a  *)
(* Convertible, or a Convertible is compared with another one.             *)
(***************************************************************************)
MaxConversions == 3

\* 16777216.0, -3.0 and 16777220.0: the difference of the first two,
\* 16777219, is no f32 and rounds to the third
TwoTo24 == Finite(FALSE, 2^MantissaBits, 1)
MinusThree == Finite(TRUE, 3 * 2^(MantissaBits - 1), 1 - MantissaBits)
Near2To24 == Finite(FALSE, 2^MantissaBits + 2, 1)

Numbers ==
    {Zero, NegativeZero, One, OnePlus, Two, MinusOne, Literal1em6,
     TwoTo24, MinusThree, F32Max, F32Neg(F32Max), NaN, Inf(FALSE)}
Texts ==
    {TrueText, FalseText, MaybeText, CapitalTrueText, OneText, EmptyString}
Epsilons ==
    {Literal1em6, Literal1em9, Zero, MinusOne, Near2To24, Inf(FALSE), NaN}
Convertibles ==
    {ConvertibleNumber(f) : f \in Numbers}
        \cup {ConvertibleString(s) : s \in Texts}
        \cup {ConvertibleBoolean(b) : b \in BOOLEAN}

\* boxed values of the types the conversion knows and of three it does not
Boxes ==
    {Box("f32", f) : f \in {One, OnePlus, NaN}}
        \cup {Box("f64", One)}
        \cup {Box(id, n) : id \in IntegerTypeIds, n \in {0, 100}}
        \cup {Box(id, -1) : id \in {"i8", "i16", "i32", "i64", "i128", "isize"}}
        \cup {Box("String", s) : s \in {TrueText, EmptyString}}
        \cup {Box("bool", b) : b \in BOOLEAN}
        \cup {Box("&str", TrueText), Box("char", "t"), Box("()", <<>>)}

\* the value a chain has reached: its kind, and the value in the field
\* named after the kind
Held(kind, v) == ("kind" :> kind) @@ (kind :> v)
Payload(h) == h[h.kind]

\* what a fallible conversion leaves: the converted value or the error
Outcome(kind, r) ==
    IF r.tag = "Ok" THEN Held(kind, r.value) ELSE Held("Err", r.error)

InitValue ==
    /\ ListenerNew
    /\ tracking_nodes = {}
    /\ job = EmptyJob
    /\ step = 0
    /\ result = InitialResult
    /\ TypeIdle
    /\ PluginIdle
    /\ held \in {Held("Convertible", c) : c \in Convertibles}
                    \cup {Held("Box", b) : b \in Boxes}
    /\ original = held
    /\ path = <<>>

CanConvert(kind) == held.kind = kind /\ Len(path) < MaxConversions

Converted(name, h) ==
    /\ held' = h
    /\ path' = Append(path, name)
    /\ UNCHANGED <<original, type_vars, listener_vars, compile_vars,
                   plugin_vars>>

try_into_bool ==
    /\ CanConvert("Convertible")
    /\ Converted("try_into_bool", Outcome("bool", TryIntoBool(Payload(held))))

try_into_f32 ==
    /\ CanConvert("Convertible")
    /\ Converted("try_into_f32", Outcome("f32", TryIntoF32(Payload(held))))

try_into_string ==
    /\ CanConvert("Convertible")
    /\ Converted("try_into_string",
                 Outcome("String", TryIntoString(Payload(held))))

try_into_box ==
    /\ CanConvert("Convertible")
    /\ Converted("try_into_box", Outcome("Box", TryIntoBox(Payload(held))))

from_bool ==
    /\ CanConvert("bool")
    /\ Converted("from_bool", Held("Convertible", FromBool(Payload(held))))

from_f32 ==
    /\ CanConvert("f32")
    /\ Converted("from_f32", Held("Convertible", FromF32(Payload(held))))

from_string ==
    /\ CanConvert("String")
    /\ Converted("from_string", Held("Convertible", FromString(Payload(held))))

try_from_box ==
    /\ CanConvert("Box")
    /\ Converted("try_from_box",
                 Outcome("Convertible", TryFromBox(Payload(held))))

call_eq(other, epsilon) ==
    /\ CanConvert("Convertible")
    /\ Converted("eq", [kind |-> "Result",
                        Result |-> eq(held.Convertible, other, epsilon),
                        self |-> held.Convertible,
                        other |-> other,
                        epsilon |-> epsilon])

NextValue ==
    \/ try_into_bool
    \/ try_into_f32
    \/ try_into_string
    \/ try_into_box
    \/ from_bool
    \/ from_f32
    \/ from_string
    \/ try_from_box
    \/ \E other \in Convertibles, epsilon \in Epsilons :
           call_eq(other, epsilon)

SpecValue == InitValue /\ [][NextValue]_vars

(***************************************************************************)
(* Type (crates/core/src/types/type.rs)                                    *)
(*                                                                         *)
(* The per-variant property functions (any_type_properties and the others) *)
(* and FunctionType are defined in the sibling modules of types/; what is  *)
(* used of them here is the name of each type and the keys of its method   *)
(* table.                                                                  *)
(***************************************************************************)
TypeAny == [variant |-> "Any"]
TypeBoolean == [variant |-> "Boolean"]
TypeFunction(function_type) ==
    [variant |-> "Function", Function |-> function_type]
TypeNumber == [variant |-> "Number"]
TypeString == [variant |-> "String"]

FunctionType(parameters, return_type) ==
    [parameters |-> parameters, return_type |-> return_type]

AddMethod == <<"A", "d", "d">>
AndMethod == <<"A", "n", "d">>
NotMethod == <<"N", "o", "t">>
UnknownMethod == <<"N", "o", "p", "e">>
DottedMethod == <<"a", ".", "b">>

\* a method table with the given keys
Registry(keys) == [k \in keys |-> "YarnFn"]

\* TypeProperties::from_name(name).with_methods(registry)
TypeProperties(name, methods) ==
    [name |-> name, description |-> name, methods |-> methods]

any_type_properties == TypeProperties(<<"A", "n", "y">>, Registry({}))
boolean_type_properties ==
    TypeProperties(<<"B", "o", "o", "l">>, Registry({AndMethod, NotMethod}))
function_type_properties(function_type) ==
    TypeProperties(<<"F", "u", "n", "c", "t", "i", "o", "n">>, Registry({}))
number_type_properties ==
    TypeProperties(<<"N", "u", "m", "b", "e", "r">>, Registry({AddMethod}))
string_type_properties ==
    TypeProperties(<<"S", "t", "r", "i", "n", "g">>, Registry({AddMethod}))

\* Type::properties
properties(type) ==
    IF type.variant = "Any" THEN any_type_properties
    ELSE IF type.variant = "Boolean" THEN boolean_type_properties
    ELSE IF type.variant = "Function"
         THEN function_type_properties(type.Function)
    ELSE IF type.variant = "Number" THEN number_type_properties
    ELSE string_type_properties

\* Type::has_method
has_method(type, name) ==
    name \in DOMAIN properties(type).methods

\* Type::get_canonical_name_for_method
get_canonical_name_for_method_if_present(type, method_name) ==
    IF has_method(type, method_name)
    THEN properties(type).name \o <<".">> \o method_name
    ELSE <<>>

get_canonical_name_for_method(type, method_name) ==
    properties(type).name \o <<".">> \o method_name

\* Type::EXPLICITLY_CONSTRUCTABLE
EXPLICITLY_CONSTRUCTABLE == <<TypeAny, TypeNumber, TypeString, TypeBoolean>>

(***************************************************************************)
(* Queries on one type                                                     *)
(***************************************************************************)
FunctionTypes ==
    {FunctionType(<<>>, None),
     FunctionType(<<TypeNumber>>, Some(TypeBoolean)),
     FunctionType(<<TypeString, TypeAny>>, Some(TypeString))}
Types ==
    {TypeAny, TypeBoolean, TypeNumber, TypeString}
        \cup {TypeFunction(f) : f \in FunctionTypes}
MethodNames ==
    {AddMethod, AndMethod, NotMethod, UnknownMethod, DottedMethod, EmptyString}

InitType ==
    /\ ListenerNew
    /\ tracking_nodes = {}
    /\ job = EmptyJob
    /\ step = 0
    /\ result = InitialResult
    /\ ValueIdle
    /\ PluginIdle
    /\ type_subject \in Types
    /\ method_subject \in MethodNames
    /\ type_answer = None

Asking == type_answer = None

Answered(answer) ==
    /\ type_answer' = answer
    /\ UNCHANGED <<type_subject, method_subject, value_vars,
                   listener_vars, compile_vars, plugin_vars>>

call_has_method ==
    /\ Asking
    /\ Answered([op |-> "has_method",
                 has_method |-> has_method(type_subject, method_subject)])

call_get_canonical_name_for_method ==
    /\ Asking
    /\ Answered([op |-> "get_canonical_name_for_method",
                 canonical_name |->
                     get_canonical_name_for_method(type_subject,
                                                   method_subject)])

read_explicitly_constructable ==
    /\ Asking
    /\ Answered([op |-> "EXPLICITLY_CONSTRUCTABLE",
                 types |-> EXPLICITLY_CONSTRUCTABLE])

NextType ==
    \/ call_has_method
    \/ call_get_canonical_name_for_method
    \/ read_explicitly_constructable

SpecType == InitType /\ [][NextType]_vars

(***************************************************************************)
(* Strings-file updating of the bevy plugin                                *)
(* (crates/bevy_plugin/src/localization/strings_file/updating.rs)          *)
(*                                                                         *)
(* One frame runs, in this order: the update of the event buffers that     *)
(* add_event installs, the two systems that send update events, and        *)
(* update_all_strings_files_for_string_table; between two frames assets    *)
(* finish loading, missing strings files get created, YarnCompilation is   *)
(* inserted and Localizations is inserted or changed, the last also        *)
(* between the sending systems and the updating one.  StringsFile and      *)
(* the string table are defined outside updating.rs: a string table is an  *)
(* identifier and whether all its lines have line ids, a strings file is   *)
(* the identifier of the table it was last updated from, and the result of *)
(* update_file is an input of the run.                                     *)
(***************************************************************************)
MaxFrames == 2

Languages == {"en", "de"}

\* Localizations::strings_file_path: one path per language
strings_file_path(language) == [language |-> language]

\* Handle<StringsFile>: the handle of the asset at a path
Handle(asset_path) == [asset_path |-> asset_path]
CurrentHandle == Handle([language |-> "current"])
Handles == {Handle(strings_file_path(l)) : l \in Languages} \cup {CurrentHandle}

\* string tables: two with full line ids, one without
StringTable(id, complete) == [id |-> id, complete |-> complete]
TableOne == StringTable("one", TRUE)
TableTwo == StringTable("two", TRUE)
TablePartial == StringTable("partial", FALSE)
StringTables == {TableOne, TableTwo, TablePartial}
\* the string tables of the yarn files changed in one frame: none or one
ChangedFiles == {<<>>} \cup {<<string_table>> : string_table \in StringTables}
\* yarn_compilation.0.string_table: what a compilation can have produced
CompilationTables == {TableOne, TablePartial}

\* the content of a strings file nothing has updated yet
Untouched == "untouched"

\* StringsFile::from_string_table
from_string_table(language, string_table) ==
    IF string_table.complete
    THEN Ok([language |-> language, lines |-> string_table.id])
    ELSE Err("lines without line ids")

\* what StringsFile::update_file can return
UpdateResults == {"changed", "unchanged", "error"}

\* the sequences that enumerate a set once each: the orders in which a
\* HashSet or a HashMap can be iterated
Orders(S) ==
    {order \in [1..Cardinality(S) -> S] :
        \A i, j \in 1..Cardinality(S) : i # j => order[i] # order[j]}

\* a HashMap as a function on its keys
MapValues(m) == {m[k] : k \in DOMAIN m}

\* AssetServer::load: an asset not yet asked for starts loading
load(loads, handle) ==
    IF loads[handle] = "NotLoaded"
    THEN [loads EXCEPT ![handle] = "Loading"]
    ELSE loads

\* lines 84-86: the languages no longer supported leave the map
remove_languages_keeps_all(ltu, supported) == ltu

remove_languages(ltu, supported) ==
    [l \in DOMAIN ltu \cap supported |-> ltu[l]]

\* lines 87-98: the languages to add, in the order the set hands them out;
\* the first one without a strings file ends the run
RECURSIVE add_languages(_, _, _, _, _, _)
add_languages(order, i, ltu, loads, current, on_disk) ==
    IF i > Len(order)
    THEN [languages_to_update |-> ltu, load_states |-> loads,
          missing |-> FALSE]
    ELSE LET language == order[i]
             file_path == strings_file_path(language)
         IN IF IsSome(current)
            THEN add_languages(order, i + 1,
                               MapInsert(ltu, language, current.value),
                               loads, current, on_disk)
            ELSE IF language \in on_disk
            THEN add_languages(order, i + 1,
                               MapInsert(ltu, language, Handle(file_path)),
                               load(loads, Handle(file_path)),
                               current, on_disk)
            ELSE [languages_to_update |-> ltu, load_states |-> loads,
                  missing |-> TRUE]

\* lines 99-103
all_loaded(ltu, loads) ==
    \A handle \in MapValues(ltu) : loads[handle] = "Loaded"

\* AssetEvent<StringsFile>
AssetEvent(kind, handle) == [kind |-> kind, handle |-> handle]

\* What the loop over the events has done so far: the assets, the dirty
\* (handle, path) pairs, the (language, table) pairs handed to
\* from_string_table and those handed on to update_file, in the order of
\* the calls, the languages for which update_file reported a change, the
\* log, whether a `?` has ended the run, and the asset events sent.
Progress(files, dirty, attempted, updated, changed, logs, failed, sent) ==
    [strings_files |-> files, dirty |-> dirty, attempted |-> attempted,
     updated |-> updated, changed |-> changed, logs |-> logs,
     failed |-> failed, asset_events |-> sent]

Logged(level, message, language) ==
    [level |-> level, message |-> message, language |-> language]

\* lines 114-144: one language drained from the map.  The strings file is
\* taken with Assets::get_mut, which marks the asset as modified whatever
\* the loop then does with it.
update_language_dirty_on_failure(acc, language, handle, string_table, mode, update_result) ==
    LET file_path == strings_file_path(language)
        new_strings_file == from_string_table(language, string_table)
        \* line 114: Assets::get_mut sends AssetEvent::Modified for the
        \* handle before it looks the asset up
        got == [acc EXCEPT
                   !.asset_events = Append(@, AssetEvent("Modified", handle))]
        tried == [got EXCEPT
                     !.attempted = Append(@, <<language, string_table.id>>)]
    IN IF acc.failed THEN acc
       ELSE IF handle \notin DOMAIN acc.strings_files THEN got
       ELSE IF new_strings_file.tag = "Err"
       THEN [tried EXCEPT
                !.dirty = @ \cup {<<handle, file_path>>},
                !.logs = @ \cup {IF mode = "Development"
                                 THEN Logged("info", "updating soon", language)
                                 ELSE Logged("warn", "could not update", language)}]
       ELSE IF update_result = "error" THEN [tried EXCEPT !.failed = TRUE]
       ELSE [tried EXCEPT
                !.strings_files[handle] =
                    IF update_result = "changed"
                    THEN new_strings_file.value.lines ELSE @,
                !.dirty = IF update_result = "changed"
                          THEN @ \cup {<<handle, file_path>>} ELSE @,
                !.updated = Append(@, <<language, string_table.id>>),
                !.changed = IF update_result = "changed"
                            THEN @ \cup {language} ELSE @,
                !.logs = @ \cup {Logged("info", "updated", language)}]

update_language(acc, language, handle, string_table, mode, update_result) ==
    LET file_path == strings_file_path(language)
        new_strings_file == from_string_table(language, string_table)
        \* line 114: Assets::get_mut sends AssetEvent::Modified for the
        \* handle before it looks the asset up
        got == [acc EXCEPT
                   !.asset_events = Append(@, AssetEvent("Modified", handle))]
        tried == [got EXCEPT
                     !.attempted = Append(@, <<language, string_table.id>>)]
    IN IF acc.failed THEN acc
       ELSE IF handle \notin DOMAIN acc.strings_files THEN got
       ELSE IF new_strings_file.tag = "Err"
       THEN [tried EXCEPT
                !.logs = @ \cup {IF mode = "Development"
                                 THEN Logged("info", "updating soon", language)
                                 ELSE Logged("warn", "could not update", language)}]
       ELSE IF update_result = "error" THEN [tried EXCEPT !.failed = TRUE]
       ELSE [tried EXCEPT
                !.strings_files[handle] =
                    IF update_result = "changed"
                    THEN new_strings_file.value.lines ELSE @,
                !.dirty = IF update_result = "changed"
                          THEN @ \cup {<<handle, file_path>>} ELSE @,
                !.updated = Append(@, <<language, string_table.id>>),
                !.changed = IF update_result = "changed"
                            THEN @ \cup {language} ELSE @,
                !.logs = @ \cup {Logged("info", "updated", language)}]

\* line 113: languages_to_update.drain(), in the order the map hands out
RECURSIVE drain_languages(_, _, _, _, _, _, _)
drain_languages(acc, order, i, ltu, string_table, mode, update_results) ==
    IF i > Len(order) THEN acc
    ELSE drain_languages(
             update_language(acc, order[i], ltu[order[i]], string_table,
                             mode, update_results[order[i]]),
             order, i + 1, ltu, string_table, mode, update_results)

\* line 113: what languages_to_update.drain() leaves in the map
after_drain_keeps(m) == m

after_drain(m) == <<>>

\* lines 107-146: the loop over the events read; the first event drains
\* the map, which is empty for the events behind it
RECURSIVE apply_events(_, _, _, _, _, _, _)
apply_events(acc, string_tables, i, order, ltu, mode, update_results) ==
    IF i > Len(string_tables) \/ acc.failed THEN acc
    ELSE apply_events(
             drain_languages(acc, order, 1, ltu, string_tables[i], mode,
                             update_results),
             string_tables, i + 1, after_drain(order), after_drain(ltu),
             mode, update_results)

\* lines 147-150: the dirty files are written to their paths in the order
\* the set hands them out; the `?` of line 149 ends the run at the first
\* write that fails (`failing` is its place in the order, 0 when every
\* write succeeds), with the files before it written
write_assets(on_disk, files, order, failing) ==
    LET last == IF failing = 0 THEN Len(order) ELSE failing - 1
        written == {order[i] : i \in 1..last}
    IN  [files_on_disk |->
             [l \in DOMAIN on_disk \cup {pair[2].language : pair \in written}
                 |-> IF \E pair \in written : pair[2].language = l
                     THEN files[(CHOOSE pair \in written :
                                    pair[2].language = l)[1]]
                     ELSE on_disk[l]],
         written |-> written,
         failed |-> failing # 0]

\* What one run of the updating system did: how it returned, whether events
\* were pending, the languages removed from the map in lines 84-86, the
\* keys of the map after lines 76-98, the string tables
\* of the events read, the progress of the loop over them, the pairs
\* written, whether CreateMissingStringsFilesEvent was sent, and the asset
\* events the run sent.
RunLog(returned, was_pending, removed, keys, tables_read, acc, written, sent) ==
    [returned |-> returned, pending |-> was_pending, removed |-> removed,
     reconciled |-> keys, read |-> tables_read, attempted |-> acc.attempted,
     updated |-> acc.updated, changed |-> acc.changed, logs |-> acc.logs,
     dirty |-> acc.dirty, written |-> written, missing_sent |-> sent,
     asset_events |-> acc.asset_events]

NoProgress == Progress(strings_files, {}, <<>>, <<>>, {}, {}, FALSE, <<>>)

PendingTables == [i \in 1..Len(events) |-> events[i].string_table]

FileGenerationModes == {"Development", "File"}

InitUpdate ==
    /\ ListenerNew
    /\ tracking_nodes = {}
    /\ job = EmptyJob
    /\ step = 0
    /\ result = InitialResult
    /\ CoreIdle
    /\ events = <<>>
    /\ localizations \in {None} \cup [languages : SUBSET Languages,
                                      file_generation_mode : FileGenerationModes]
    /\ in_development \in BOOLEAN
    /\ languages_to_update = <<>>
    /\ current_strings_file \in {None, Some(CurrentHandle)}
    /\ files_on_disk \in UNION {[present -> {Untouched}] :
                                    present \in SUBSET Languages}
    /\ load_states =
           [h \in Handles |->
               IF current_strings_file = Some(h) THEN "Loading"
               ELSE "NotLoaded"]
    /\ strings_files = <<>>
    /\ phase = "first"
    /\ last_run = None
    /\ frame = 1
    /\ asset_events = <<>>
    /\ yarn_compilation \in {None} \cup {Some(t) : t \in CompilationTables}
    /\ localizations_changed = (localizations # None)
    /\ creation_events = <<>>

\* Events::update_system, installed by add_event for each of the two event
\* types: an event not read within the frame it was sent in and the next one
\* is dropped
events_update ==
    /\ phase = "first"
    /\ LET kept == SelectSeq(events, LAMBDA e : e.age = 0)
       IN events' = [i \in 1..Len(kept) |-> [kept[i] EXCEPT !.age = 1]]
    /\ LET kept == SelectSeq(creation_events, LAMBDA e : e.age = 0)
       IN creation_events' =
              [i \in 1..Len(kept) |-> [kept[i] EXCEPT !.age = 1]]
    /\ phase' = "yarn"
    /\ UNCHANGED <<localizations, languages_to_update, current_strings_file,
                   files_on_disk, load_states, strings_files, last_run,
                   frame, in_development, asset_events, yarn_compilation,
                   localizations_changed, listener_vars, compile_vars,
                   core_vars>>

\* line 23: resource_exists::<Localizations>().and_then(in_development)
update_run_condition == localizations # None /\ in_development

\* lines 16-17: resource_exists::<YarnCompilation>()
\*     .and_then(resource_exists_and_changed::<Localizations>())
localization_run_condition ==
    yarn_compilation # None /\ localizations # None /\ localizations_changed

\* one event for each yarn file of the project created or modified
send_update_events_on_yarn_file_changes(string_tables) ==
    /\ phase = "yarn"
    /\ in_development
    /\ events' = events \o [i \in 1..Len(string_tables) |->
                               [string_table |-> string_tables[i], age |-> 0]]
    /\ phase' = "localization"
    /\ UNCHANGED <<localizations, languages_to_update, current_strings_file,
                   files_on_disk, load_states, strings_files, last_run,
                   frame, in_development, asset_events, yarn_compilation,
                   localizations_changed, creation_events, listener_vars,
                   compile_vars, core_vars>>

\* line 14: the run condition in_development is false
yarn_file_changes_skipped ==
    /\ phase = "yarn"
    /\ ~in_development
    /\ phase' = "localization"
    /\ UNCHANGED <<events, localizations, languages_to_update,
                   current_strings_file, files_on_disk, load_states,
                   strings_files, last_run,
                   frame, in_development, asset_events, yarn_compilation,
                   localizations_changed, creation_events, listener_vars,
                   compile_vars, core_vars>>

\* lines 53-64: the system sends CreateMissingStringsFilesEvent and an
\* update event with the string table of the compilation; its run condition
\* has looked at Localizations
send_update_events_on_localization_changes ==
    /\ phase = "localization"
    /\ localization_run_condition
    /\ creation_events' = Append(creation_events, [age |-> 0])
    /\ events' = Append(events, [string_table |-> yarn_compilation.value,
                                 age |-> 0])
    /\ localizations_changed' = FALSE
    /\ phase' = "update"
    /\ UNCHANGED <<localizations, languages_to_update, current_strings_file,
                   files_on_disk, load_states, strings_files, last_run,
                   frame, in_development, asset_events, yarn_compilation,
                   listener_vars, compile_vars, core_vars>>

\* lines 16-17: the run condition is false, the system does not run.
\* and_then looks at Localizations only when YarnCompilation exists, so a
\* change made while there is no YarnCompilation is still unseen.
localization_changes_skipped ==
    /\ phase = "localization"
    /\ ~localization_run_condition
    /\ phase' = "update"
    /\ UNCHANGED <<events, localizations, languages_to_update,
                   current_strings_file, files_on_disk, load_states,
                   strings_files, last_run,
                   frame, in_development, asset_events, yarn_compilation,
                   localizations_changed, creation_events, listener_vars,
                   compile_vars, core_vars>>

\* line 23: the run condition is false, the system does not run
update_skipped ==
    /\ phase = "update"
    /\ ~update_run_condition
    /\ phase' = "idle"
    /\ UNCHANGED <<events, localizations, languages_to_update,
                   current_strings_file, files_on_disk, load_states,
                   strings_files, last_run,
                   frame, in_development, asset_events, yarn_compilation,
                   localizations_changed, creation_events, listener_vars,
                   compile_vars, core_vars>>

update_all_strings_files_for_string_table ==
    /\ phase = "update"
    /\ update_run_condition
    /\ LET supported == localizations.languages
           was_pending == events # <<>>
           kept == IF was_pending
                   THEN remove_languages(languages_to_update, supported)
                   ELSE languages_to_update
           languages_to_add ==
               IF was_pending THEN supported \ DOMAIN languages_to_update
               ELSE {}
       IN \E add_order \in Orders(languages_to_add) :
          LET reconciled == add_languages(add_order, 1, kept, load_states,
                                          current_strings_file,
                                          DOMAIN files_on_disk)
              ltu == reconciled.languages_to_update
          IN /\ load_states' = reconciled.load_states
             /\ IF reconciled.missing
                   \/ (was_pending /\ ~all_loaded(ltu, reconciled.load_states))
                THEN /\ languages_to_update' = ltu
                     /\ last_run' = RunLog("Ok", was_pending,
                                           DOMAIN languages_to_update
                                               \ DOMAIN kept,
                                           DOMAIN ltu, <<>>, NoProgress, {},
                                           reconciled.missing)
                     /\ creation_events' =
                            IF reconciled.missing
                            THEN Append(creation_events, [age |-> 0])
                            ELSE creation_events
                     /\ phase' = "idle"
                     /\ UNCHANGED <<events, strings_files, files_on_disk,
                                    asset_events>>
                ELSE \E drain_order \in Orders(DOMAIN ltu),
                        update_results \in [DOMAIN ltu -> UpdateResults] :
                     LET acc == apply_events(NoProgress, PendingTables, 1,
                                             drain_order, ltu,
                                             localizations.file_generation_mode,
                                             update_results)
                         \* the `?` of line 137 leaves the loop over the
                         \* events while the first one is handled
                         tables_read == IF acc.failed THEN <<PendingTables[1]>>
                                        ELSE PendingTables
                     IN \E write_order \in Orders(IF acc.failed THEN {}
                                                  ELSE acc.dirty) :
                        \E failing \in 0..Len(write_order) :
                        LET writes == write_assets(files_on_disk,
                                                   acc.strings_files,
                                                   write_order, failing)
                            failed == acc.failed \/ writes.failed
                        IN /\ languages_to_update' =
                                  IF was_pending THEN <<>> ELSE ltu
                           /\ events' = IF acc.failed THEN Tail(events)
                                        ELSE <<>>
                           /\ strings_files' = acc.strings_files
                           /\ asset_events' =
                                  asset_events \o acc.asset_events
                           /\ files_on_disk' = writes.files_on_disk
                           /\ creation_events' = creation_events
                           /\ last_run' = RunLog(IF failed THEN "Err" ELSE "Ok",
                                                 was_pending,
                                                 DOMAIN languages_to_update
                                                     \ DOMAIN kept,
                                                 DOMAIN ltu, tables_read, acc,
                                                 writes.written, FALSE)
                           /\ phase' = IF failed THEN "panicked" ELSE "idle"
    /\ UNCHANGED <<localizations, current_strings_file,
                   frame, in_development, yarn_compilation,
                   localizations_changed, listener_vars, compile_vars,
                   core_vars>>

\* the asset server has finished loading a strings file: Assets::set
\* stores it and sends AssetEvent::Created
asset_loaded(handle) ==
    /\ phase = "idle"
    /\ load_states[handle] = "Loading"
    /\ load_states' = [load_states EXCEPT ![handle] = "Loaded"]
    /\ strings_files' =
           MapInsert(strings_files, handle,
                     IF handle.asset_path.language \in DOMAIN files_on_disk
                     THEN files_on_disk[handle.asset_path.language]
                     ELSE Untouched)
    /\ asset_events' = Append(asset_events, AssetEvent("Created", handle))
    /\ UNCHANGED <<events, localizations, languages_to_update,
                   current_strings_file, files_on_disk, phase, last_run,
                   frame, in_development, yarn_compilation,
                   localizations_changed, creation_events, listener_vars,
                   compile_vars, core_vars>>

\* the missing strings file of a supported language has been created
strings_file_created(language) ==
    /\ phase = "idle"
    /\ localizations # None
    /\ language \in localizations.languages \ DOMAIN files_on_disk
    /\ files_on_disk' = MapInsert(files_on_disk, language, Untouched)
    /\ UNCHANGED <<events, localizations, languages_to_update,
                   current_strings_file, load_states, strings_files, phase,
                   last_run, frame, in_development, asset_events,
                   yarn_compilation, localizations_changed, creation_events,
                   listener_vars, compile_vars, core_vars>>

\* other code inserts the Localizations resource or changes it, between two
\* frames or between the system that sends the events and the one that
\* updates; a resource there already keeps its file generation mode
localizations_set(languages, mode) ==
    /\ phase \in {"idle", "update"}
    /\ localizations # None => mode = localizations.file_generation_mode
    /\ localizations' = [languages |-> languages,
                         file_generation_mode |-> mode]
    /\ localizations_changed' = TRUE
    /\ UNCHANGED <<events, languages_to_update, current_strings_file,
                   files_on_disk, load_states, strings_files, phase,
                   last_run, frame, in_development, asset_events,
                   yarn_compilation, creation_events, listener_vars,
                   compile_vars, core_vars>>

\* the compilation of the yarn files has finished: YarnCompilation is
\* inserted
yarn_compilation_inserted(string_table) ==
    /\ phase = "idle"
    /\ yarn_compilation = None
    /\ yarn_compilation' = Some(string_table)
    /\ UNCHANGED <<events, localizations, languages_to_update,
                   current_strings_file, files_on_disk, load_states,
                   strings_files, phase, last_run, frame, in_development,
                   asset_events, localizations_changed, creation_events,
                   listener_vars, compile_vars, core_vars>>

\* the frame ends and the next one begins; Assets::asset_event_system has
\* handed the asset events of the frame on to their readers
next_frame ==
    /\ phase = "idle"
    /\ frame < MaxFrames
    /\ frame' = frame + 1
    /\ phase' = "first"
    /\ asset_events' = <<>>
    /\ UNCHANGED <<events, localizations, languages_to_update,
                   current_strings_file, files_on_disk, load_states,
                   strings_files, last_run, in_development,
                   yarn_compilation, localizations_changed, creation_events,
                   listener_vars, compile_vars, core_vars>>

NextUpdate ==
    \/ events_update
    \/ \E string_tables \in ChangedFiles :
           send_update_events_on_yarn_file_changes(string_tables)
    \/ yarn_file_changes_skipped
    \/ send_update_events_on_localization_changes
    \/ localization_changes_skipped
    \/ update_skipped
    \/ update_all_strings_files_for_string_table
    \/ \E handle \in Handles : asset_loaded(handle)
    \/ \E language \in Languages : strings_file_created(language)
    \/ \E languages \in SUBSET Languages, mode \in FileGenerationModes :
           localizations_set(languages, mode)
    \/ \E string_table \in CompilationTables :
           yarn_compilation_inserted(string_table)
    \/ next_frame

SpecUpdate == InitUpdate /\ [][NextUpdate]_vars

(***************************************************************************)
(* Properties                                                              *)
(***************************************************************************)
StoredNodes == {program.nodes[n] : n \in DOMAIN program.nodes}
IsRawTextNode(node) == Contains(node.tags, RawTextTag)
LabelsValid(node) ==
    \A l \in DOMAIN node.labels :
        0 <= node.labels[l] /\ node.labels[l] < Len(node.instructions)
EndsWithStop(node) ==
    /\ node.instructions # <<>>
    /\ node.instructions[Len(node.instructions)].opcode = "Stop"
HasDuplicateName ==
    \E i, k \in 1..Len(debug_infos) :
        i < k /\ debug_infos[i].node_name = debug_infos[k].node_name

\* C1: when compile has returned for a job without files, the result holds
\* an empty Program, an empty string table and no diagnostics.
C1_EmptyJobGivesEmptyProgram ==
    (CompileReturned /\ job.files = <<>>) =>
        /\ result.program = Some(DefaultProgram)
        /\ result.string_table = <<>>
        /\ result.diagnostics = <<>>

\* C2: every syntactic (non-raw-text) node stored in the Program has a
\* non-empty instruction sequence whose last instruction is Stop.
C2_SyntacticNodesEndWithStop ==
    \A node \in StoredNodes : ~IsRawTextNode(node) => EndsWithStop(node)

\* a tracked syntactic node with a body statement has been stored
C2_Witness ==
    \E node \in StoredNodes :
        /\ ~IsRawTextNode(node)
        /\ node.name \in tracking_nodes
        /\ Len(node.instructions) > 7

\* C3: every label of every stored node, and of the current node once
\* exit_body has run, is a valid index into that node's instructions.
C3_LabelOffsetsValid ==
    /\ \A node \in StoredNodes : LabelsValid(node)
    /\ pc = "end" => LabelsValid(current_node.value)

\* a stored node holds the entry label and a second label that points at
\* the final Stop
C3_Witness ==
    \E node \in StoredNodes :
        /\ Cardinality(DOMAIN node.labels) = 2
        /\ \E l \in DOMAIN node.labels :
               /\ node.labels[l] = Len(node.instructions) - 1
               /\ node.instructions[node.labels[l] + 1].opcode = "Stop"
        /\ \E l \in DOMAIN node.labels : node.labels[l] = 0

\* C4: a node stored under a name stays as it is (no later exit_node
\* replaces or changes it), every node is stored under its own name, and
\* exit_node of a node whose name is not yet present stores that node.
C4_FirstNodeWins ==
    [][/\ \A n \in DOMAIN program.nodes :
              /\ n \in DOMAIN program'.nodes
              /\ program'.nodes[n] = program.nodes[n]
              /\ program.nodes[n].name = n
       /\ (pc = "end" /\ current_node.value.name # EmptyString
              /\ current_node.value.name \notin DOMAIN program.nodes)
            => /\ current_node.value.name \in DOMAIN program'.nodes
               /\ program'.nodes[current_node.value.name] = current_node.value
               /\ DOMAIN program'.nodes =
                      DOMAIN program.nodes \cup {current_node.value.name}]_vars

\* two nodes of the same name have been exited, the second with other
\* instructions than the first, and the Program holds the first
C4_Witness ==
    /\ pc = "file"
    /\ Len(debug_infos) = 2
    /\ debug_infos[1].node_name = debug_infos[2].node_name
    /\ Len(debug_infos[1].line_positions) # Len(debug_infos[2].line_positions)
    /\ DOMAIN program.nodes = {debug_infos[1].node_name}
    /\ Len(program.nodes[debug_infos[1].node_name].instructions) =
           Len(debug_infos[1].line_positions)

\* C5: once a node name has come up a second time, the diagnostics hold a
\* diagnostic for the duplicate (one that is not the missing-title message).
C5_DuplicateIsDiagnosed ==
    (pc = "file" /\ HasDuplicateName) =>
        \E i \in 1..Len(diagnostics) :
            diagnostics[i].message # MissingTitleMessage

\* C6: exit_node of a node without a name appends exactly the diagnostic
\* "Missing title header for node" and leaves the Program unchanged.
C6_MissingTitleDiagnosed ==
    [][(pc = "end" /\ current_node.value.name = EmptyString) =>
           /\ diagnostics' =
                  Append(diagnostics, [message |-> MissingTitleMessage,
                                       file_name |-> file_name])
           /\ program' = program]_vars

\* a node without a name has been exited, with another node stored
C6_Witness ==
    /\ pc = "file"
    /\ Len(diagnostics) = 1
    /\ diagnostics[1].message = MissingTitleMessage
    /\ Cardinality(DOMAIN program.nodes) = 1

\* C7: every exit_node appends one debug-info record, also for a node that
\* is discarded, so after n nodes have been exited debug_infos has n
\* records.
C7_DebugInfoForEveryNode ==
    pc = "file" => Len(debug_infos) = nodes_walked

IsEmptyStart(node) ==
    /\ node.name = StartName
    /\ StartName \notin tracking_nodes
    /\ node.tags = <<>>
OneLabelOneStop(node) ==
    /\ Cardinality(DOMAIN node.labels) = 1
    /\ \A l \in DOMAIN node.labels : node.labels[l] = 0
    /\ Len(node.instructions) = 1
    /\ node.instructions[1].opcode = "Stop"

\* C8: exit_body of the untracked node "Start" without tags and with an
\* empty body leaves exactly one label, at offset 0, and exactly one
\* instruction, Stop; exit_node stores the node like that under "Start".
C8_EmptyStartNode ==
    [][/\ (pc = "body" /\ IsEmptyStart(current_node.value)
              /\ current_node.value.instructions = <<>>)
           => OneLabelOneStop(current_node'.value)
       /\ (pc = "end" /\ IsEmptyStart(current_node.value)
              /\ Len(current_node.value.instructions) = 1
              /\ StartName \notin DOMAIN program.nodes)
           => /\ StartName \in DOMAIN program'.nodes
              /\ OneLabelOneStop(program'.nodes[StartName])]_vars

\* the empty untracked node "Start" is in the Program
C8_Witness ==
    /\ StartName \notin tracking_nodes
    /\ StartName \in DOMAIN program.nodes
    /\ program.nodes[StartName].tags = <<>>
    /\ Len(program.nodes[StartName].instructions) = 1
    /\ program.nodes[StartName].labels = (<<"L", "0">> :> 0)

\* C9: a raw-text node has no instructions and no labels after exit_body,
\* only its source-text string id; no stored node has both a source-text
\* string id and instructions.
C9_RawTextNodeHasNoInstructions ==
    /\ (pc = "end" /\ IsRawTextNode(current_node.value)) =>
           /\ current_node.value.instructions = <<>>
           /\ current_node.value.labels = <<>>
           /\ current_node.value.source_text_string_id # EmptyString
    /\ \A node \in StoredNodes :
           ~(node.source_text_string_id # EmptyString /\ node.instructions # <<>>)

\* C10: no two register_label calls on one listener return the same string.
C10_LabelsUnique ==
    \A i, k \in 1..Len(issued_labels) :
        i # k => issued_labels[i] # issued_labels[k]

IsPrefix(p, q) == Len(p) <= Len(q) /\ SubSeq(q, 1, Len(p)) = p

\* C11: the label counter is 0 on a new listener and equals the number of
\* register_label calls made; the i-th call uses the counter value i - 1;
\* only enter_body (through register_label) changes the counter, and never
\* downwards; the entry label of a syntactic node carries the counter value
\* reached by all earlier labels.
C11_LabelCounterOnlyGrows ==
    /\ [](/\ label_count = Len(issued_labels)
          /\ nodes_walked = 0 => label_count = 0
          /\ \A i \in 1..Len(issued_labels) :
                 IsPrefix(<<"L">> \o FormatUsize(i - 1), issued_labels[i]))
    /\ [][/\ label_count' >= label_count
          /\ pc' # "body" => label_count' = label_count
          /\ (pc = "node" /\ pc' = "body" /\ ~is_current_node_raw_text)
               => /\ label_count' > label_count
                  /\ (<<"L">> \o FormatUsize(label_count))
                         \in DOMAIN current_node'.value.labels]_vars

\* the second node of the file gets the entry label L2, after the two labels
\* L0 and L1endif of the first
C11_Witness ==
    /\ pc = "body"
    /\ nodes_walked = 2
    /\ label_count = 3
    /\ <<"L", "2">> \in DOMAIN current_node.value.labels
    /\ issued_labels[2] = <<"L", "1">> \o EndIfCommentary

\* the passes compile has applied so far, in order
PassesRun == SubSeq(compiler_steps, 1, step)

\* C12: when compile returns it has run three passes, type registration,
\* then string-table extraction, then code generation, and returns the
\* result of the last.
C12_ThreePassesInOrder ==
    CompileReturned =>
        /\ Len(PassesRun) = 3
        /\ PassesRun[1] = "add_built_in_types"
        /\ PassesRun[2] = "create_string_tables"

\* C18: enter_node leaves an empty current node (no name, headers, tags,
\* instructions, labels or source-text id), a cleared raw-text flag and a
\* fresh current debug info, whatever the node before left, and does not
\* change the Program, the diagnostics, debug_infos, tracking_nodes or the
\* label counter.
C18_EnterNodeResets ==
    [][(pc = "file" /\ pc' = "node") =>
           /\ IsSome(current_node')
           /\ current_node'.value.name = EmptyString
           /\ current_node'.value.headers = <<>>
           /\ current_node'.value.tags = <<>>
           /\ current_node'.value.instructions = <<>>
           /\ DOMAIN current_node'.value.labels = {}
           /\ current_node'.value.source_text_string_id = EmptyString
           /\ is_current_node_raw_text' = FALSE
           /\ current_debug_info'.node_name = EmptyString
           /\ current_debug_info'.file_name = ""
           /\ current_debug_info'.line_positions = <<>>
           /\ UNCHANGED <<program, diagnostics, debug_infos, tracking_nodes,
                          label_count>>]_vars

\* the second node has been entered after a named raw-text node with
\* instructions was exited
C18_Witness ==
    /\ pc = "node"
    /\ nodes_walked = 2
    /\ current_node.value.headers = <<>>
    /\ current_debug_info.line_positions = <<>>
    /\ Len(debug_infos) = 1
    /\ debug_infos[1].line_positions # <<>>
    /\ \E node \in StoredNodes : IsRawTextNode(node) /\ Len(node.headers) = 2

IsWord(w) == w # EmptyString
\* the whitespace-separated words of a text
WhitespaceWords(s) == SelectSeq(SplitOnSpace(s), IsWord)

\* one exit_header step as C19 describes it
HeaderStepAsClaimed ==
    LET old == current_node.value
        new == current_node'.value
        h == new.headers[Len(new.headers)]
    IN /\ new.headers = Append(old.headers, h)
       /\ \E i \in HeaderInputs :
              h = [key |-> i.key,
                   value |-> IF IsSome(i.value) THEN i.value.value ELSE EmptyString]
       /\ new.name = IF h.key = "title" THEN h.value ELSE old.name
       /\ new.tags = IF h.key = "tags"
                     THEN old.tags \o WhitespaceWords(h.value)
                     ELSE old.tags

\* C19: exit_header appends the header to the node's header list (an omitted
\* value as the empty string), a title header sets the name, and a tags
\* header adds exactly the whitespace-separated words of its value.
C19_HeadersKeptAndTagsAreWords ==
    [][(pc = "node" /\ pc' = "node") => HeaderStepAsClaimed]_vars

\* the opcodes generate_tracking_code emits
TrackingOpcodes ==
    LET w == generate_tracking_code(
                 Working(DefaultNode, DefaultDebugInfo, 0, <<>>), EmptyString)
    IN [i \in 1..Len(w.node.instructions) |-> w.node.instructions[i].opcode]

\* one exit_body step as C20 describes it
ExitBodyStepAsClaimed ==
    LET old == current_node.value.instructions
        new == current_node'.value.instructions
        added == SubSeq(new, Len(old) + 1, Len(new))
        opcodes == [i \in 1..Len(added) |-> added[i].opcode]
    IN /\ IsPrefix(old, new)
       /\ opcodes = IF current_node.value.name \in tracking_nodes
                    THEN TrackingOpcodes \o <<"Stop">>
                    ELSE <<"Stop">>

\* C20: exit_body appends, behind the instructions of the body, the
\* tracking code exactly when the node's name is in tracking_nodes, and
\* then the Stop with nothing in between; for an untracked node it appends
\* the Stop alone.
C20_TrackingThenStop ==
    [][(pc = "body" /\ pc' = "end") => ExitBodyStepAsClaimed]_vars

\* a tracked node with a line statement has left its body
C20_Witness ==
    /\ pc = "end"
    /\ current_node.value.name \in tracking_nodes
    /\ Len(current_node.value.instructions) = 8
    /\ current_node.value.instructions[1].opcode = "RunLine"
    /\ current_node.value.instructions[2].opcode = "PushVariable"
    /\ current_node.value.instructions[8].opcode = "Stop"

\* the Convertible a chain started from, when it started from one
Started(variant) ==
    /\ original.kind = "Convertible"
    /\ original.Convertible.variant = variant

HeldBool(b) == held.kind = "bool" /\ held.bool = b
HeldErr(e) == held.kind = "Err" /\ held.Err = e

\* C13: converting Convertible::String(s) to bool yields true for "true",
\* false for "false", and for every other text (among them "maybe", "True",
\* "1" and the empty string) the ParseBoolError and nothing else.
C13_StringToBool ==
    (Started("String") /\ path = <<"try_into_bool">>) =>
        LET s == original.Convertible.String
        IN  /\ s = TrueText => HeldBool(TRUE)
            /\ s = FalseText => HeldBool(FALSE)
            /\ s \notin {TrueText, FalseText} => HeldErr(ParseBoolError)

C13_Witness ==
    /\ original = Held("Convertible", ConvertibleString(CapitalTrueText))
    /\ path = <<"try_into_bool">>
    /\ HeldErr(ParseBoolError)

\* C14: Boolean(b) -> String -> Convertible::String -> bool yields b;
\* Boolean(b) -> f32 -> Convertible::Number -> bool yields b, through 1.0
\* for true and 0.0 for false; a String converted to String and back is
\* unchanged.
C14_BooleanRoundTrips ==
    /\ (Started("Boolean")
          /\ path = <<"try_into_string", "from_string", "try_into_bool">>)
         => HeldBool(original.Convertible.Boolean)
    /\ (Started("Boolean") /\ path = <<"try_into_f32">>)
         => /\ held.kind = "f32"
            /\ held.f32 = IF original.Convertible.Boolean THEN One ELSE Zero
    /\ (Started("Boolean")
          /\ path = <<"try_into_f32", "from_f32", "try_into_bool">>)
         => HeldBool(original.Convertible.Boolean)
    /\ (Started("String") /\ path = <<"try_into_string", "from_string">>)
         => held = original

C14_Witness ==
    /\ original = Held("Convertible", ConvertibleBoolean(TRUE))
    /\ path = <<"try_into_f32", "from_f32", "try_into_bool">>
    /\ HeldBool(TRUE)

\* the magnitude of a finite f32 in units of 2^MinExponent, exactly
Scaled(x) == BigTimesPower(BigOfInt(x.mantissa), 2, x.exponent - MinExponent)

\* |a - b| of two finite f32 in units of 2^MinExponent, exactly
ExactDifference(a, b) ==
    IF a.negative # b.negative THEN BigAdd(Scaled(a), Scaled(b))
    ELSE IF BigLess(Scaled(a), Scaled(b)) THEN BigSub(Scaled(b), Scaled(a))
    ELSE BigSub(Scaled(a), Scaled(b))

\* |a - b| < epsilon in exact arithmetic: the numbers are finite, and the
\* epsilon is +infinity or is finite and above their exact distance.  A
\* difference with NaN or an infinity in it is below no epsilon, and
\* nothing is below NaN.
ExactlyWithin(a, b, epsilon) ==
    /\ a.class = "finite"
    /\ b.class = "finite"
    /\ \/ epsilon = Inf(FALSE)
       \/ /\ epsilon.class = "finite"
          /\ ~epsilon.negative
          /\ BigLess(ExactDifference(a, b), Scaled(epsilon))

\* eq is never an error; on two values that are not both Numbers it is Ok
\* of structural equality, false across variants; 1.0 and 1.0 + 1e-7 are
\* equal under 1e-6 and unequal under 1e-9
EqOutsideNumbers(a, b, epsilon, answer) ==
    /\ answer.tag = "Ok"
    /\ a.variant # b.variant => answer.value = FALSE
    /\ (a.variant = "String" /\ b.variant = "String")
         => answer.value = (a.String = b.String)
    /\ (a.variant = "Boolean" /\ b.variant = "Boolean")
         => answer.value = (a.Boolean = b.Boolean)
    /\ (a = ConvertibleNumber(One) /\ b = ConvertibleNumber(OnePlus))
         => /\ OnePlus # One
            /\ epsilon = Literal1em6 => answer.value = TRUE
            /\ epsilon = Literal1em9 => answer.value = FALSE

\* C15 as stated: eq on two Numbers is Ok(|a - b| < epsilon), so 1.0 and
\* 1.0 + 1e-7 are equal under 1e-6 and unequal under 1e-9; on every other
\* pair it is Ok of structural equality, false across variants; it is never
\* an error.
C15_EpsilonEquality ==
    held.kind = "Result" =>
        /\ EqOutsideNumbers(held.self, held.other, held.epsilon, held.Result)
        /\ (held.self.variant = "Number" /\ held.other.variant = "Number")
             => held.Result.value
                    = ExactlyWithin(held.self.Number, held.other.Number,
                                    held.epsilon)

\* C15, amended: eq on two Numbers is Ok(true) exactly when |a - b| <
\* epsilon and the difference a - b, rounded to the nearest f32, is not of
\* the magnitude epsilon itself: the code compares the rounded difference,
\* and a distance just below epsilon can round up to it.  The rest is as
\* stated.
C15_EpsilonEqualityRounded ==
    held.kind = "Result" =>
        /\ EqOutsideNumbers(held.self, held.other, held.epsilon, held.Result)
        /\ (held.self.variant = "Number" /\ held.other.variant = "Number")
             => held.Result.value
                    = (/\ ExactlyWithin(held.self.Number, held.other.Number,
                                        held.epsilon)
                       /\ F32Abs(F32Sub(held.self.Number, held.other.Number))
                              # held.epsilon)

\* 16777216.0 and -3.0 under the epsilon 16777220.0: their distance,
\* 16777219, is below the epsilon and rounds to it, and eq is Ok(false)
C15_Witness ==
    /\ held.kind = "Result"
    /\ held.self = ConvertibleNumber(TwoTo24)
    /\ held.other = ConvertibleNumber(MinusThree)
    /\ held.epsilon = Near2To24
    /\ ExactlyWithin(TwoTo24, MinusThree, Near2To24)
    /\ held.Result = Ok(FALSE)

HeldConvertible(c) == held.kind = "Convertible" /\ held.Convertible = c

\* C16: a boxed value of a numeric width converts to a Number, a boxed
\* String to a String, a boxed bool to a Boolean, a boxed value of any other
\* type to the InvalidTypeId error; every Convertible converts to a boxed
\* value, and converting that back returns the original Convertible.
C16_BoxConversions ==
    /\ (original.kind = "Box" /\ path = <<"try_from_box">>) =>
           LET id == original.Box.type_id
               v == Unbox(original.Box)
           IN  /\ id \in FloatTypeIds \cup IntegerTypeIds
                    => /\ held.kind = "Convertible"
                       /\ held.Convertible.variant = "Number"
               /\ id = "String" => HeldConvertible(ConvertibleString(v))
               /\ id = "bool" => HeldConvertible(ConvertibleBoolean(v))
               /\ id \notin FloatTypeIds \cup IntegerTypeIds
                                \cup {"String", "bool"}
                    => /\ held.kind = "Err"
                       /\ held.Err.kind = "InvalidTypeId"
    /\ (path # <<>> /\ path[Len(path)] = "try_into_box") => held.kind = "Box"
    /\ (original.kind = "Convertible"
          /\ path = <<"try_into_box", "try_from_box">>) => held = original

C16_Witness ==
    /\ original = Held("Convertible", ConvertibleNumber(OnePlus))
    /\ path = <<"try_into_box", "try_from_box">>
    /\ held = original

Answers(op) == type_answer # None /\ type_answer.op = op

\* C17: for every type and every method name the canonical name is the
\* type's name from properties(), a dot, and the method name, whether or not
\* the type has the method; has_method is true exactly for the keys of the
\* type's method table; the explicitly constructable types are exactly Any,
\* Number, String and Boolean, no Function among them.
C17_CanonicalNames ==
    LET type_name == properties(type_subject).name
        keys == DOMAIN properties(type_subject).methods
    IN  /\ Answers("get_canonical_name_for_method") =>
               LET full == type_answer.canonical_name
               IN  /\ Len(full) = Len(type_name) + 1 + Len(method_subject)
                   /\ SubSeq(full, 1, Len(type_name)) = type_name
                   /\ full[Len(type_name) + 1] = "."
                   /\ SubSeq(full, Len(type_name) + 2, Len(full))
                          = method_subject
        /\ Answers("has_method") =>
               type_answer.has_method = (method_subject \in keys)
        /\ Answers("EXPLICITLY_CONSTRUCTABLE") =>
               /\ type_answer.types
                      = <<TypeAny, TypeNumber, TypeString, TypeBoolean>>
               /\ \A i \in DOMAIN type_answer.types :
                      type_answer.types[i].variant # "Function"

C17_Witness ==
    /\ type_subject = TypeBoolean
    /\ method_subject = UnknownMethod
    /\ ~has_method(type_subject, method_subject)
    /\ Answers("get_canonical_name_for_method")
    /\ type_answer.canonical_name
           = <<"B", "o", "o", "l", ".", "N", "o", "p", "e">>

\* one step as C21 describes it: both lists keep what they hold, and a named
\* node that leaves after a diagnostic was pushed is stored like any other
ListsOnlyGrow ==
    /\ IsPrefix(diagnostics, diagnostics')
    /\ IsPrefix(debug_infos, debug_infos')
    /\ (/\ pc = "end"
        /\ pc' = "file"
        /\ diagnostics # <<>>
        /\ current_node.value.name # EmptyString
        /\ current_node.value.name \notin DOMAIN program.nodes)
         => /\ current_node.value.name \in DOMAIN program'.nodes
            /\ program'.nodes[current_node.value.name] = current_node.value
            /\ Len(debug_infos') = Len(debug_infos) + 1

\* C21: no callback removes, reorders or changes an entry of diagnostics or
\* of debug_infos, both only grow at the end; and a node that follows a node
\* diagnosed for its missing title is still compiled and stored.
C21_DiagnosticsAndDebugInfosOnlyGrow ==
    [][ListsOnlyGrow]_vars

\* the first node had no title and was diagnosed; the second, Start, whose
\* body closed on the last line, has been stored behind it
C21_Witness ==
    /\ pc = "file"
    /\ nodes_walked = 2
    /\ line_walked = MaxLine
    /\ Len(diagnostics) = 1
    /\ StartName \in DOMAIN program.nodes
    /\ Len(debug_infos) = 1
    /\ LET positions == debug_infos[1].line_positions
       IN positions[Len(positions)].line = MaxLine - 1

\* the Stop that one exit_body step appends, as C22 describes it
StopPositionAsClaimed ==
    LET instructions == current_node'.value.instructions
        stop == instructions[Len(instructions)]
        L == line_walked'
    IN /\ stop.opcode = "Stop"
       /\ stop.source.character = 0
       /\ stop.source.line >= 0
       /\ stop.source.line = IF L \in {0, 1} THEN 0 ELSE L - 1

\* C22: the Stop appended by exit_body has character 0 and line
\* max(0, L - 1) for the line L of the body's closing token: never below
\* zero, 0 for L = 0 and L = 1, and L - 1 otherwise.
C22_StopLineClamped ==
    [][(pc = "body" /\ pc' = "end") => StopPositionAsClaimed]_vars

\* a body whose closing token reports line 0 has been left
C22_Witness ==
    /\ pc = "end"
    /\ line_walked = 0
    /\ LET instructions == current_node.value.instructions
       IN /\ instructions[Len(instructions)].opcode = "Stop"
          /\ instructions[Len(instructions)].source.line = 0

Range(s) == {s[i] : i \in DOMAIN s}

\* a step that is one run of update_all_strings_files_for_string_table
RunStep == phase = "update" /\ update_run_condition /\ phase' # "update"

\* the run read events, and from_string_table fails on the table it applies
RunFailedToBuild ==
    /\ last_run'.read # <<>>
    /\ from_string_table("en", last_run'.read[1]).tag = "Err"

FailureLog(language) ==
    IF localizations.file_generation_mode = "Development"
    THEN Logged("info", "updating soon", language)
    ELSE Logged("warn", "could not update", language)

\* the handle lines 88-97 give a supported language, or the one it has
HandleOf(language) ==
    IF language \in DOMAIN languages_to_update
    THEN languages_to_update[language]
    ELSE IF IsSome(current_strings_file) THEN current_strings_file.value
    ELSE Handle(strings_file_path(language))

\* the run leaves the content of every strings file, the dirty set and the
\* disk alone, returns Ok without a panic, hands every language of the map
\* to from_string_table and logs one failure for each
FailedLanguagesAreSkipped ==
    /\ strings_files' = strings_files
    /\ files_on_disk' = files_on_disk
    /\ last_run'.dirty = {}
    /\ last_run'.written = {}
    /\ last_run'.updated = <<>>
    /\ last_run'.returned = "Ok"
    /\ phase' = "idle"
    /\ {pair[1] : pair \in Range(last_run'.attempted)}
           = last_run'.reconciled
    /\ last_run'.logs
           = {FailureLog(language) : language \in last_run'.reconciled}

\* AssetEvent::Modified for the strings file of every language handed to
\* from_string_table, in the order of the calls
ModifiedForAttempted ==
    [i \in 1..Len(last_run'.attempted) |->
        AssetEvent("Modified", HandleOf(last_run'.attempted[i][1]))]

\* C23 as stated: when from_string_table fails for a language, its strings
\* file is not modified, not marked dirty and not written, the run returns
\* Ok without a panic, and it goes on to the remaining languages; in either
\* file-generation mode the failure is logged and nothing else happens: no
\* asset event reports the strings file as modified.
C23_FailedLanguageIsSkipped ==
    [][(RunStep /\ RunFailedToBuild) =>
           /\ FailedLanguagesAreSkipped
           /\ asset_events' = asset_events]_vars

\* C23, amended: when from_string_table fails for a language, the content
\* of its strings file is not changed, the file is not marked dirty and
\* not written, the run returns Ok without a panic, and it goes on to the
\* remaining languages; in either file-generation mode the failure is
\* logged, and the one other effect is the AssetEvent::Modified that
\* Assets::get_mut has sent for the strings file of each language before
\* from_string_table was called.
C23_FailedLanguageIsSkippedButTouched ==
    [][(RunStep /\ RunFailedToBuild) =>
           /\ FailedLanguagesAreSkipped
           /\ last_run'.asset_events = ModifiedForAttempted
           /\ asset_events' = asset_events \o ModifiedForAttempted]_vars

\* a run has gone through both languages with a table without full ids
\* and has sent the two Modified events
C23_Witness ==
    /\ last_run # None
    /\ last_run.read # <<>>
    /\ last_run.read[1] = TablePartial
    /\ last_run.returned = "Ok"
    /\ Len(last_run.attempted) = 2
    /\ Cardinality(last_run.logs) = 2
    /\ last_run.written = {}
    /\ Len(last_run.asset_events) = 2
    /\ \A i \in 1..2 : last_run.asset_events[i].kind = "Modified"
    /\ \A i \in 1..2 : asset_events[Len(asset_events) - 2 + i]
                            = last_run.asset_events[i]

\* a supported language has no strings file on disk, and there is no
\* current strings file
FileIsMissing ==
    /\ current_strings_file = None
    /\ \E language \in localizations.languages :
           language \notin DOMAIN files_on_disk

\* some handle of a supported language is not yet Loaded
HandleIsLoading ==
    \E language \in localizations.languages :
        load_states[HandleOf(language)] # "Loaded"

\* the run returns Ok and leaves the events, the assets and the disk alone
RunDefers ==
    /\ last_run'.returned = "Ok"
    /\ phase' = "idle"
    /\ last_run'.read = <<>>
    /\ events' = events
    /\ strings_files' = strings_files
    /\ files_on_disk' = files_on_disk
    /\ last_run'.written = {}
    /\ FileIsMissing => last_run'.missing_sent

\* the run before this one deferred events that are still unread, and this
\* run finds every handle Loaded
LaterRunOfDeferred ==
    /\ last_run # None
    /\ last_run.pending
    /\ last_run.read = <<>>
    /\ events # <<>>
    /\ ~FileIsMissing
    /\ ~HandleIsLoading

\* every event the earlier run left unread is applied to every language
DeferredEventsApplied ==
    \A i \in 1..Len(events) :
        events[i].age = 1 =>
            \A language \in last_run'.reconciled :
                <<language, events[i].string_table.id>>
                    \in Range(last_run'.attempted)

DefersWhenNotReady ==
    (RunStep /\ events # <<>> /\ (FileIsMissing \/ HandleIsLoading))
        => RunDefers

\* C24: with events pending and a strings file missing or a handle not yet
\* Loaded, the run returns Ok, reads no event and touches no strings file
\* (having sent CreateMissingStringsFilesEvent when a file is missing); the
\* events stay unread, and a later run that finds every handle Loaded
\* applies them.
C24_DeferredEventsAppliedLater ==
    [][/\ DefersWhenNotReady
       /\ (RunStep /\ LaterRunOfDeferred /\ last_run'.returned = "Ok")
            => DeferredEventsApplied]_vars

\* no language occurs twice in a sequence of (language, table) pairs
OncePerLanguage(pairs) ==
    \A i, j \in 1..Len(pairs) : i # j => pairs[i][1] # pairs[j][1]

\* C25: a run that reads n >= 1 events takes them from the front of the
\* pending ones (all of them when it returns Ok), updates each language's
\* strings file at most once and only from the string table of the first
\* event read; the tables of the later events are consumed without being
\* applied, and languages_to_update is empty when the run ends.
C25_OnlyFirstEventApplied ==
    [][(RunStep /\ last_run'.read # <<>>) =>
           /\ Len(last_run'.read) <= Len(events)
           /\ last_run'.read = SubSeq(PendingTables, 1, Len(last_run'.read))
           /\ events' = SubSeq(events, Len(last_run'.read) + 1, Len(events))
           /\ last_run'.returned = "Ok" => last_run'.read = PendingTables
           /\ OncePerLanguage(last_run'.attempted)
           /\ OncePerLanguage(last_run'.updated)
           /\ \A pair \in Range(last_run'.attempted) \cup Range(last_run'.updated) :
                  pair[2] = last_run'.read[1].id
           /\ languages_to_update' = <<>>]_vars

\* a run has read two events with different string tables and updated a
\* strings file
C25_Witness ==
    /\ last_run # None
    /\ Len(last_run.read) >= 2
    /\ last_run.read[2] # last_run.read[1]
    /\ last_run.returned = "Ok"
    /\ last_run.updated # <<>>
    /\ languages_to_update = <<>>

\* the languages of the strings files a run wrote
WrittenLanguages(run) == {pair[2].language : pair \in run.written}

\* C26: after lines 76-98 of a run with pending events that does not return
\* for a missing file, the keys of languages_to_update are the languages of
\* the current Localizations: the languages no longer supported are removed
\* before any file is updated, so only strings files of supported languages
\* are updated or written, and only those whose update_file reported a
\* change are written.
C26_OnlySupportedLanguages ==
    [][RunStep =>
           /\ (events # <<>> /\ ~last_run'.missing_sent)
                => last_run'.reconciled = localizations.languages
           /\ events # <<>>
                => /\ last_run'.removed
                          = DOMAIN languages_to_update \ localizations.languages
                   /\ last_run'.reconciled \cap last_run'.removed = {}
           /\ \A pair \in Range(last_run'.attempted) \cup Range(last_run'.updated) :
                  pair[1] \in localizations.languages
           /\ WrittenLanguages(last_run') \subseteq localizations.languages
           /\ WrittenLanguages(last_run') \subseteq last_run'.changed
           /\ last_run'.returned = "Ok"
                => WrittenLanguages(last_run') = last_run'.changed]_vars

\* a run has removed a language that is no longer supported and then
\* updated the strings file of one that is
C26_Witness ==
    /\ last_run # None
    /\ last_run.removed # {}
    /\ last_run.updated # <<>>
    /\ last_run.returned = "Ok"
    /\ last_run.reconciled = localizations.languages

====
